---- MODULE Spec2Model ----
(***************************************************************************)
(* Intercom host orchestrator: message store, cursors, group queue,        *)
(* message loop, processGroupMessages and the streamed-frame callback.      *)
(*                                                                         *)
(* JavaScript runs one macrotask at a time.  A synchronous call chain      *)
(* (loop tick -> enqueueMessageCheck -> runForGroup -> processGroupMessages)*)
(* is modelled with `stack`: while it is non-empty only the frame on top    *)
(* may step.  A processGroupMessages call that has returned waits in        *)
(* pc = "returned" for runForGroup's continuation (a microtask), which runs *)
(* before any other macrotask.                                              *)
(***************************************************************************)
EXTENDS Integers, Sequences, FiniteSets, TLC

VARIABLES
  phase,               \* "boot": main() before subsystems start; "up": loops running
  store,               \* messages table, in insertion order
  lastTimestamp,       \* global "seen" cursor (0 models '')
  lastAgentTimestamp,  \* per-group cursor, jid -> timestamp (0 models '')
  routerState,         \* persisted cursors (router_state table)
  registeredGroups,    \* jid -> group
  maxConcurrent,       \* MAX_CONCURRENT_CONTAINERS as computed from the environment
  queue,               \* GroupQueue state
  retryTimers,         \* jids with a retry timer pending
  run,                 \* per jid: the processGroupMessages / task invocation
  ipcInput,            \* per jid: follow-up batches written to input/
  stack,               \* synchronous call chain of the current macrotask
  acc,                 \* per jid: the invocation's StreamAccumulator
  containers,          \* per jid: sandbox processes spawned and not yet exited
  sessions,            \* folder -> session id, in memory and in the sessions table
  lastFrame,           \* channel and store effects of the last frame callback
  ipc,                 \* the files of one group's IPC directory, and the host's reads
  sandbox,             \* one sandbox: its context, tool call, queries, input loop
  lastCall,            \* the last call of a handler or codec, with what it returned
  disk                 \* registered_groups table and the group directories

vars == << phase, store, lastTimestamp, lastAgentTimestamp, routerState,
           registeredGroups, maxConcurrent, queue, retryTimers, run,
           ipcInput, stack, acc, containers, sessions, lastFrame,
           ipc, sandbox, lastCall, disk >>

\* The state outside the message path
sideVars == << ipc, sandbox, lastCall, disk >>

----------------------------------------------------------------------------
\* Bounds of the model
MaxMsgs == 2
MaxBot == 1
MaxPendingTasks == 1
MaxEvents == 2
MaxToolStarts == 22
MaxDeltas == 1
MaxFlushes == 3

\* Program constants
DEFAULT_MAX_CONCURRENT == 5
MAX_MESSAGE_LENGTH == 4096
MAX_TOOL_LINES == 20

MAIN_GROUP_FOLDER == "main"

\* Chats known to the channels.  Telegram owns the "tg:" jids.
WhatsAppJids == {"main@g.us", "team@g.us"}
TelegramJids == {"tg:1"}
AllJids == WhatsAppJids \cup TelegramJids

Max2(a, b) == IF a >= b THEN a ELSE b

Range(s) == {s[i] : i \in DOMAIN s}

Last(s) == s[Len(s)]

----------------------------------------------------------------------------
\* Message contents are character sequences.

ASSISTANT_NAME == <<"A", "n", "d", "y">>

UpperCase == <<"A","B","C","D","E","F","G","H","I","J","K","L","M",
               "N","O","P","Q","R","S","T","U","V","W","X","Y","Z">>
LowerCase == <<"a","b","c","d","e","f","g","h","i","j","k","l","m",
               "n","o","p","q","r","s","t","u","v","w","x","y","z">>
Digits == {"0","1","2","3","4","5","6","7","8","9"}

ToLower(c) ==
  IF \E k \in 1..26 : UpperCase[k] = c
    THEN LowerCase[CHOOSE k \in 1..26 : UpperCase[k] = c]
    ELSE c

\* \w of a JavaScript regular expression
IsWordChar(c) == c \in Range(UpperCase) \cup Range(LowerCase) \cup Digits \cup {"_"}

IsSpace(c) == c \in {" ", "\n", "\t"}

RECURSIVE TrimStart(_)
TrimStart(s) ==
  IF s # <<>> /\ IsSpace(Head(s)) THEN TrimStart(Tail(s)) ELSE s

RECURSIVE TrimEnd(_)
TrimEnd(s) ==
  IF s # <<>> /\ IsSpace(s[Len(s)]) THEN TrimEnd(SubSeq(s, 1, Len(s) - 1)) ELSE s

Trim(s) == TrimEnd(TrimStart(s))

\* new RegExp(`^@${ASSISTANT_NAME}\\b`, 'i').test(s)
TRIGGER_PATTERN(s) ==
  LET pat == <<"@">> \o ASSISTANT_NAME
      n == Len(pat)
  IN  /\ Len(s) >= n
      /\ \A k \in 1..n : ToLower(s[k]) = ToLower(pat[k])
      /\ Len(s) = n \/ ~IsWordChar(s[n + 1])

RECURSIVE escapeXml(_)
escapeXml(s) ==
  IF s = <<>> THEN <<>>
  ELSE LET c == Head(s)
           e == CASE c = "&" -> <<"&","a","m","p",";">>
                  [] c = "<" -> <<"&","l","t",";">>
                  [] c = ">" -> <<"&","g","t",";">>
                  [] c = "\"" -> <<"&","q","u","o","t",";">>
                  [] OTHER -> <<c>>
       IN  e \o escapeXml(Tail(s))

\* Contents users send in the model: a trigger (leading space, mixed case,
\* a character that escapeXml rewrites) and a near miss that is none.
Contents ==
  { <<" ", "@", "a", "N", "d", "y", " ", "&">>,
    <<"@", "A", "n", "d", "y", "x">> }

----------------------------------------------------------------------------
\* Store (db.ts)

MaxTs == IF store = <<>> THEN 0
         ELSE CHOOSE t \in {store[i].ts : i \in DOMAIN store} :
                \A i \in DOMAIN store : store[i].ts <= t

UserCount == Cardinality({i \in DOMAIN store : ~store[i].bot})
BotCount == Cardinality({i \in DOMAIN store : store[i].bot})

\* ORDER BY timestamp; rows with equal timestamps keep insertion order.
RECURSIVE SortByTs(_)
SortByTs(S) ==
  IF S = {} THEN <<>>
  ELSE LET m == CHOOSE i \in S :
                  \A k \in S : store[i].ts < store[k].ts
                               \/ (store[i].ts = store[k].ts /\ i <= k)
       IN  <<m>> \o SortByTs(S \ {m})

\* Indices of the rows returned, in order.
getMessagesSince(chatJid, sinceTimestamp) ==
  SortByTs({i \in DOMAIN store :
              /\ store[i].jid = chatJid
              /\ store[i].ts > sinceTimestamp
              /\ ~store[i].bot})

getNewMessagesRows(jids, since) ==
  SortByTs({i \in DOMAIN store :
              /\ store[i].jid \in jids
              /\ store[i].ts > since
              /\ ~store[i].bot})

getNewMessages(jids, since) ==
  LET rows == getNewMessagesRows(jids, since)
  IN  [messages |-> rows,
       newTimestamp |-> IF rows = <<>> THEN since ELSE store[Last(rows)].ts]

\* router.ts formatMessages: one <message> line per row.
formatMessages(rows) ==
  [k \in DOMAIN rows |->
     [time |-> store[rows[k]].ts, content |-> escapeXml(store[rows[k]].content)]]

----------------------------------------------------------------------------
\* config.ts

\* process.env.MAX_CONCURRENT_CONTAINERS: unset, or a string that parseInt
\* reads as val, or one it cannot read (NaN).
EnvChoices ==
  { [kind |-> "unset", val |-> 0],
    [kind |-> "int", val |-> 0],
    [kind |-> "int", val |-> 0 - 2],
    [kind |-> "text", val |-> 0] }

\* parseInt(process.env.MAX_CONCURRENT_CONTAINERS || '5', 10) || 5
ParsedMaxConcurrent(env) ==
  LET parsed == CASE env.kind = "unset" -> [nan |-> FALSE, val |-> DEFAULT_MAX_CONCURRENT]
                  [] env.kind = "int" -> [nan |-> FALSE, val |-> env.val]
                  [] OTHER -> [nan |-> TRUE, val |-> 0]
  IN  IF parsed.nan \/ parsed.val = 0 THEN DEFAULT_MAX_CONCURRENT ELSE parsed.val

\* The cap without Math.max(1, ...)
MAX_CONCURRENT_CONTAINERS_NoFloor(env) == ParsedMaxConcurrent(env)

\* Math.max(1, ...)
MAX_CONCURRENT_CONTAINERS(env) == Max2(1, ParsedMaxConcurrent(env))

----------------------------------------------------------------------------
\* GroupQueue (group-queue.ts)

NewGroupState ==
  [active |-> FALSE, pendingMessages |-> FALSE, pendingTasks |-> 0]

NewQueue ==
  [groups |-> [j \in AllJids |-> NewGroupState], activeCount |-> 0, waitingGroups |-> <<>>]

InSeq(x, s) == \E k \in DOMAIN s : s[k] = x

\* The group's slot is taken: one sandbox (message batch or task) runs for it.
MarkActive(q, j) ==
  [q EXCEPT !.groups[j].active = TRUE, !.activeCount = @ + 1]

runForGroup(q, j) ==
  [MarkActive(q, j) EXCEPT !.groups[j].pendingMessages = FALSE]

runTask(q, j) ==
  [MarkActive(q, j) EXCEPT !.groups[j].pendingTasks = @ - 1]

CapReached(q) == q.activeCount >= maxConcurrent

Wait(q, j) ==
  IF InSeq(j, q.waitingGroups) THEN q
  ELSE [q EXCEPT !.waitingGroups = Append(@, j)]

\* The start test without the group's own slot
StartsNow_IgnoringActive(q, j) == ~CapReached(q)

\* An enqueue starts the group right away: its slot is free and so is a
\* slot under the global cap.
StartsNow(q, j) == ~q.groups[j].active /\ ~CapReached(q)

enqueueMessageCheck(q, j) ==
  IF StartsNow(q, j) THEN runForGroup(q, j)
  ELSE IF q.groups[j].active
    THEN [q EXCEPT !.groups[j].pendingMessages = TRUE]
  ELSE Wait([q EXCEPT !.groups[j].pendingMessages = TRUE], j)

enqueueTask(q, j) ==
  IF StartsNow(q, j) THEN runTask([q EXCEPT !.groups[j].pendingTasks = @ + 1], j)
  ELSE IF q.groups[j].active
    THEN [q EXCEPT !.groups[j].pendingTasks = @ + 1]
  ELSE Wait([q EXCEPT !.groups[j].pendingTasks = @ + 1], j)

\* send_follow_up: piped iff a sandbox is active for the group
sendMessage(q, j) == q.groups[j].active

\* The slot is released when the invocation has finished.
Release(q, j) ==
  [q EXCEPT !.groups[j].active = FALSE, !.activeCount = @ - 1]

\* Failure handling: a failed batch is retried after a backoff until the
\* attempts are used up, then dropped.  The attempt counter is not kept:
\* whether attempts remain is left open, which covers every value of it.
RetryOutcomes(success) == IF success THEN {FALSE} ELSE {TRUE, FALSE}

\* What a freed group (or a promoted waiter) runs next: tasks first.
NextWork(q, j) ==
  IF q.groups[j].pendingTasks > 0 THEN "task"
  ELSE IF q.groups[j].pendingMessages THEN "messages"
  ELSE "none"

----------------------------------------------------------------------------
\* index.ts: helpers

\* findChannel: Telegram owns the "tg:" jids, WhatsApp the others.
ChannelOf(j) == IF j \in TelegramJids THEN "telegram" ELSE "whatsapp"

\* channel.sendMessageWithId && channel.editMessage
supportsStreaming(j) == ChannelOf(j) = "telegram"

isMainGroup(group) == group.folder = MAIN_GROUP_FOLDER

\* The gate tested as requiresTrigger === true
needsTrigger_OnlyWhenTrue(group) ==
  ~isMainGroup(group) /\ group.requiresTrigger = "true"

needsTrigger(group) == ~isMainGroup(group) /\ group.requiresTrigger # "false"

\* rows.some((m) => TRIGGER_PATTERN.test(m.content.trim()))
hasTrigger(rows) ==
  \E k \in DOMAIN rows : TRIGGER_PATTERN(Trim(store[rows[k]].content))

\* The cursor taken from the first message of the batch
AdvancedCursor_First(rows) == store[Head(rows)].ts

\* missedMessages[missedMessages.length - 1].timestamp
AdvancedCursor(rows) == store[Last(rows)].ts

\* The follow-up built from the polled messages alone
messagesToSend_OnlyPolled(allPending, groupMessages) == groupMessages

\* allPending.length > 0 ? allPending : groupMessages
messagesToSend(allPending, groupMessages) ==
  IF Len(allPending) > 0 THEN allPending ELSE groupMessages

\* The error test without the hadError flag set by the frames
EndedInError_OutputOnly(output, hadError) == output = "error"

\* output === 'error' || hadError
EndedInError(output, hadError) == output = "error" \/ hadError

\* The rollback branch without its check of outputSentToUser
RollsBack_IgnoringOutput(output, hadError, outputSentToUser) ==
  EndedInError(output, hadError)

\* the rollback branch is taken
RollsBack(output, hadError, outputSentToUser) ==
  EndedInError(output, hadError) /\ ~outputSentToUser

\* Recovery reading the seen cursor instead of the group's own
recoverySince_Seen(j) == lastTimestamp

\* recoverPendingMessages: lastAgentTimestamp[chatJid] || ''
recoverySince(j) == lastAgentTimestamp[j]

\* saveState() writing the per-group cursors only
SavedState_AgentOnly(seen, agent) ==
  [last_timestamp |-> 0, last_agent_timestamp |-> agent]

\* saveState()
SavedState(seen, agent) == [last_timestamp |-> seen, last_agent_timestamp |-> agent]

\* router.ts stripInternalTags on a token sequence: every <internal> up to
\* the nearest </internal> is removed (non-greedy, global, one pass over the
\* input), then trim().
RECURSIVE StripBlocks(_)
StripBlocks(s) ==
  IF s = <<>> THEN <<>>
  ELSE IF Head(s) = "<internal>"
            /\ \E k \in 2..Len(s) : s[k] = "</internal>"
    THEN LET close == CHOOSE k \in 2..Len(s) :
                        /\ s[k] = "</internal>"
                        /\ \A m \in 2..(k - 1) : s[m] # "</internal>"
         IN  StripBlocks(SubSeq(s, close + 1, Len(s)))
  ELSE <<Head(s)>> \o StripBlocks(Tail(s))

\* The text is a sequence of runs of characters.  The two runs "<inter" and
\* "nal>" side by side are the characters of an opening tag: the regular
\* expression, which reads characters, finds the tag there.
RECURSIVE Lex(_)
Lex(s) ==
  IF Len(s) < 2 THEN s
  ELSE IF s[1] = "<inter" /\ s[2] = "nal>"
    THEN <<"<internal>">> \o Lex(SubSeq(s, 3, Len(s)))
  ELSE <<Head(s)>> \o Lex(Tail(s))

stripInternalTags(text) == Trim(StripBlocks(Lex(text)))

\* Session ids the sandboxes generate
SessionIds == {"s1", "s2"}

Folders == {"main", "team"}

\* No session: the in-memory map and the sessions table are empty.
NoSessions ==
  [mem |-> [d \in Folders |-> ""], db |-> [d \in Folders |-> ""]]

\* if (output.newSessionId) { sessions[group.folder] = ...; setSession(...) }
recordSession(ss, folder, newSessionId) ==
  IF newSessionId # ""
    THEN [ss EXCEPT !.mem[folder] = newSessionId, !.db[folder] = newSessionId]
    ELSE ss

\* clearGroupSession: deleteSession(groupFolder); delete sessions[groupFolder]
clearGroupSession(ss, folder) ==
  [ss EXCEPT !.mem[folder] = "", !.db[folder] = ""]

----------------------------------------------------------------------------
\* Sandbox output frames (ContainerOutput), as the runners write them.

NULL == <<"null">>

\* Results a sandbox writes: empty, a reply, internal reasoning only, and a
\* reply one character longer than a channel message may be.
ResultTexts ==
  { <<>>,
    <<"o", "k">>,
    <<"<internal>", "x", "</internal>">>,
    <<"L", "k">> }

FramesWith(results) ==
  {[status |-> "success", result |-> r, event |-> "none", newSessionId |-> ""] :
     r \in results}
  \cup {[status |-> st, result |-> NULL, event |-> ev, newSessionId |-> ""] :
          <<st, ev>> \in {<<"success", "none">>, <<"error", "none">>,
                          <<"success", "tool_start">>, <<"success", "text_delta">>}}

Frames == FramesWith(ResultTexts)

\* The frames of a runner that reports its session id on some of them
WithSessions(frames) ==
  {[f EXCEPT !.newSessionId = s] : f \in frames, s \in SessionIds \cup {""}}

\* if (result.result): neither null nor the empty string
Truthy(result) == result # NULL /\ result # <<>>

NoFrame == [jid |-> "",
            frame |-> [status |-> "", result |-> NULL, event |-> "none",
                       newSessionId |-> ""],
            sends |-> 0, edits |-> 0, stored |-> 0, timerReset |-> FALSE]

\* What a sandbox may report as newSessionId: nothing, or its session id,
\* which is the one it was given (sessionId ||), else one it generates
ReportableSessions(given) == IF given # "" THEN {"", given} ELSE {""} \cup SessionIds

\* The session id of the sandbox, as far as its frames have told: the one
\* it was given, else the one it generated
SandboxSession(known, f) == IF known # "" THEN known ELSE f.newSessionId

\* The idle timer refreshed by every frame
resetsIdleTimer_EveryFrame(f, useStreaming) == TRUE

\* The callback reaches resetIdleTimer(): on a stream event routed to the
\* accumulator, or under `if (result.result)`
resetsIdleTimer(f, useStreaming) ==
  (f.event # "none" /\ useStreaming) \/ Truthy(f.result)

----------------------------------------------------------------------------
\* stream-accumulator.ts

\* A token stands for a run of characters: "L" for MAX_MESSAGE_LENGTH
\* letters, a tag or the tool-line prefix for its characters, any other
\* token for one character.
Width(tok) ==
  CASE tok = "L" -> MAX_MESSAGE_LENGTH
    [] tok = "<internal>" -> 10
    [] tok = "</internal>" -> 11
    [] tok = "<inter" -> 6
    [] tok = "nal>" -> 4
    [] tok = ">> Bash: " -> 9
    [] OTHER -> 1

RECURSIVE TextLength(_)
TextLength(s) == IF s = <<>> THEN 0 ELSE Width(Head(s)) + TextLength(Tail(s))

\* lines.join('\n')
RECURSIVE JoinLines(_)
JoinLines(lines) ==
  IF lines = <<>> THEN <<>>
  ELSE IF Len(lines) = 1 THEN Head(lines)
  ELSE Head(lines) \o <<"\n">> \o JoinLines(Tail(lines))

\* The frames whose reply fits in one channel message
ShortFrames == FramesWith({r \in ResultTexts : TextLength(r) <= MAX_MESSAGE_LENGTH})

\* finalize is not running
NoFinal ==
  [phase |-> "none", awaits |-> 0, cleanText |-> <<>>, content |-> <<>>, id |-> 0]

\* The fields of a StreamAccumulator: messageId (0 is null), toolLines,
\* textParts, flushTimer (the timers set and neither fired nor cleared).
\* flushChain is the sequence of the flushes chained so far: jobs.  fin is
\* the position of a finalize call; toolStarts counts the addToolStart
\* calls and final is the channel message that the last successful final
\* edit wrote, with its content (history, not fields of the class).
NewAcc ==
  [messageId |-> 0, toolLines |-> <<>>, textParts |-> <<>>, flushTimer |-> 0,
   jobs |-> <<>>, fin |-> NoFinal, toolStarts |-> 0,
   final |-> [id |-> 0, content |-> <<>>]]

\* scheduleFlush without `if (this.flushTimer) return`
scheduleFlush_Always(a) == [a EXCEPT !.flushTimer = @ + 1]

\* scheduleFlush: set the debounce timer unless one is pending
scheduleFlush(a) == IF a.flushTimer > 0 THEN a ELSE [a EXCEPT !.flushTimer = 1]

\* `>> ${name}: ${summary}`
ToolLine(summary) == <<">> Bash: ">> \o summary

MoreTools == <<".", ".", ".", " ", "(", "m", "o", "r", "e", " ", "t", "o", "o", "l", "s", ")">>

\* addToolStart pushing every line
addToolStart_Unbounded(a, summary) ==
  scheduleFlush([a EXCEPT !.toolLines = Append(@, ToolLine(summary))])

addToolStart(a, summary) ==
  scheduleFlush(
    IF Len(a.toolLines) < MAX_TOOL_LINES
      THEN [a EXCEPT !.toolLines = Append(@, ToolLine(summary))]
    ELSE IF Len(a.toolLines) = MAX_TOOL_LINES
      THEN [a EXCEPT !.toolLines = Append(@, MoreTools)]
    ELSE a)

addTextDelta(a, text) == scheduleFlush([a EXCEPT !.textParts = Append(@, text)])

\* finalize: the tool log followed by the clean text
FinalContent(a, cleanText) ==
  (IF Len(a.toolLines) > 0 THEN JoinLines(a.toolLines) \o <<"\n", "\n">> ELSE <<>>)
  \o cleanText

\* The edit tried whenever a streamed message exists
FinalEdits_IgnoringLength(a, cleanText) == a.messageId # 0

\* finalize edits the streamed message: it exists and the content fits
FinalEdits(a, cleanText) ==
  a.messageId # 0 /\ TextLength(FinalContent(a, cleanText)) <= MAX_MESSAGE_LENGTH

\* finalize, after the edit was tried (tries) and answered (ok):
\* successful edits of the streamed message
FinalizeEdits(tries, ok) == IF tries /\ ok THEN 1 ELSE 0

\* finalize falling through to sendMessage after a successful edit
FinalizeSends_NoReturn(tries, ok) == 1

\* `if (ok) return;` and then the fallback channel.sendMessage
FinalizeSends(tries, ok) == IF tries /\ ok THEN 0 ELSE 1

\* dispose / the head of finalize: clearTimeout(this.flushTimer)
ClearTimer(a) == [a EXCEPT !.flushTimer = IF @ > 0 THEN @ - 1 ELSE 0]

\* textParts.join('')
RECURSIVE Concat(_)
Concat(parts) == IF parts = <<>> THEN <<>> ELSE Head(parts) \o Concat(Tail(parts))

\* content.slice(0, n)
RECURSIVE Slice(_, _)
Slice(s, n) ==
  IF s = <<>> \/ Width(Head(s)) > n THEN <<>>
  ELSE <<Head(s)>> \o Slice(Tail(s), n - Width(Head(s)))

buildContent(a) ==
  LET tools == JoinLines(a.toolLines)
      text == Concat(a.textParts)
      content == IF a.toolLines # <<>> /\ text # <<>>
                   THEN tools \o <<"\n", "\n">> \o text
                   ELSE tools \o text
  IN  IF TextLength(content) > MAX_MESSAGE_LENGTH
        THEN Slice(content, MAX_MESSAGE_LENGTH)
        ELSE content

\* A flush chained on flushChain by the timer callback
NewJob == [status |-> "queued", call |-> "none", id |-> 0]

\* flush() called by the timer callback itself, not chained
CanStart_Unchained(jobs, k) == TRUE

\* flushChain.then(() => this.flush()): flush k runs when the promise of
\* flush k-1 has resolved
CanStart(jobs, k) == IF k = 1 THEN TRUE ELSE jobs[k - 1].status = "done"

\* await this.flushChain, for the chain as it was when finalize was called
ChainSettled(jobs, awaits) ==
  IF awaits = 0 THEN TRUE ELSE jobs[awaits].status = "done"

\* flush creating a message every time
FlushCall_AlwaysSend(messageId) == "send"

\* flush: sendMessageWithId while there is no message, editMessage after
FlushCall(messageId) == IF messageId = 0 THEN "send" ELSE "edit"

----------------------------------------------------------------------------
\* Invocation state and call frames

IdleRun ==
  [pc |-> "idle", task |-> FALSE, prompt |-> <<>>, previousCursor |-> 0,
   hadError |-> FALSE, outputSentToUser |-> FALSE, output |-> "", ret |-> TRUE,
   idleTimer |-> FALSE, stdinClosed |-> FALSE, sessionId |-> "", killed |-> FALSE]

TaskRun == [IdleRun EXCEPT !.pc = "running", !.task = TRUE]

ReturnedRun(ret) == [IdleRun EXCEPT !.pc = "returned", !.ret = ret]

CallFrame(k, j, since, todo) == [k |-> k, jid |-> j, since |-> since, todo |-> todo]

PgmFrame(j) == CallFrame("processGroupMessages", j, 0, <<>>)

DrainWaitingFrame == CallFrame("drainWaiting", "", 0, <<>>)

\* No synchronous chain is running and no continuation is due.
Quiescent == stack = <<>> /\ \A j \in AllJids : run[j].pc # "returned"

\* Map insertion order of messagesByGroup: jids by first row
RECURSIVE JidOrder(_)
JidOrder(rows) ==
  IF rows = <<>> THEN <<>>
  ELSE LET j == store[Head(rows)].jid
       IN  <<j>> \o JidOrder(SelectSeq(Tail(rows), LAMBDA i : store[i].jid # j))

Orders(S) == {o \in [1..Cardinality(S) -> S] : Range(o) = S}

----------------------------------------------------------------------------
\* Initial state: a fresh install at the point where main() has loaded its
\* state and connected the channels (index.ts main, up to the subsystems).

----------------------------------------------------------------------------
\* The IPC directory of one group, its sandbox and the host that reads it

\* IpcContext of the sandbox of the main group and of another group
Ctxs ==
  { [chatJid |-> "main@g.us", groupFolder |-> "main", isMain |-> TRUE],
    [chatJid |-> "team@g.us", groupFolder |-> "team", isMain |-> FALSE] }

NoCtx == [chatJid |-> "", groupFolder |-> "", isMain |-> FALSE]

\* `${Date.now()}-${random}`: the names a write can draw
FileNames == {"f1", "f2"}

\* crypto.randomUUID(): one per queryKernel call
Uuids == {"u1", "u2"}

\* path.join(dir, `${name}.json`)
FilePath(dir, name) == [dir |-> dir, name |-> name, ext |-> ".json"]

\* Writing straight to the final name
TempPath_Final(filepath) == filepath

\* `${filepath}.tmp`
TempPath(filepath) == [filepath EXCEPT !.ext = @ \o ".tmp"]

\* fs.writeFileSync(p, JSON.stringify(data)): the file exists from the
\* open on, and holds the whole text once the write has ended
WriteFile(files, p, data, whole) ==
  (p :> [data |-> data, whole |-> whole]) @@ files

\* fs.unlinkSync(p), errors ignored
Unlink(files, p) == [q \in DOMAIN files \ {p} |-> files[q]]

\* fs.renameSync(from, to)
Rename(files, from, to) ==
  IF from = to THEN files ELSE (to :> files[from]) @@ Unlink(files, from)

NoData == [type |-> "none"]

\* A tool that returns without writing a file
Refusal(text) == [result |-> text, dir |-> "", data |-> NoData]

\* scheduleTask keeping the target it was given
scheduleTask_AnyTarget(ctx, args) ==
  IF ~args.scheduleValid THEN Refusal("Invalid interval")
  ELSE [result |-> "Task scheduled", dir |-> "tasks",
        data |-> [type |-> "schedule_task",
                  targetJid |-> IF args.targetGroupJid # ""
                                  THEN args.targetGroupJid ELSE ctx.chatJid,
                  createdBy |-> ctx.groupFolder]]

scheduleTask(ctx, args) ==
  IF ~args.scheduleValid THEN Refusal("Invalid interval")
  ELSE [result |-> "Task scheduled", dir |-> "tasks",
        data |-> [type |-> "schedule_task",
                  targetJid |-> IF ctx.isMain /\ args.targetGroupJid # ""
                                  THEN args.targetGroupJid ELSE ctx.chatJid,
                  createdBy |-> ctx.groupFolder]]

\* registerGroup without the test of ctx.isMain
registerGroup_Unguarded(ctx, args) ==
  [result |-> "Group registered.", dir |-> "tasks",
   data |-> [type |-> "register_group", jid |-> args.jid]]

registerGroup(ctx, args) ==
  IF ~ctx.isMain THEN Refusal("Only the main group can register new groups.")
  ELSE [result |-> "Group registered.", dir |-> "tasks",
        data |-> [type |-> "register_group", jid |-> args.jid]]

\* The IPC tools among the tools declared to the model
getToolDeclarations(isMain) ==
  {"send_message", "schedule_task", "pause_task"}
    \cup (IF isMain THEN {"register_group"} ELSE {})

\* executeTool dispatches on the name, declared or not; each tool gives
\* the string it returns and the file it writes
executeTool(name, args, ipcCtx) ==
  CASE name = "send_message" ->
         [result |-> "Message sent.", dir |-> "messages",
          data |-> [type |-> "message", chatJid |-> ipcCtx.chatJid,
                    groupFolder |-> ipcCtx.groupFolder]]
    [] name = "schedule_task" -> scheduleTask(ipcCtx, args)
    [] name = "pause_task" ->
         [result |-> "Task pause requested.", dir |-> "tasks",
          data |-> [type |-> "pause_task", groupFolder |-> ipcCtx.groupFolder,
                    isMain |-> ipcCtx.isMain]]
    [] name = "register_group" -> registerGroup(ipcCtx, args)
    [] OTHER -> Refusal("Unknown tool")

\* The names and arguments a tool call can carry
ToolNames ==
  {"send_message", "schedule_task", "pause_task", "register_group"}

\* The arguments that tool reads: target_group_jid ("" when absent) and a
\* schedule_value that is well-formed or not for schedule_task, a jid for
\* register_group
ToolArgs(name) ==
  [targetGroupJid : IF name = "schedule_task" THEN {"", "other@g.us"} ELSE {""},
   scheduleValid : IF name = "schedule_task" THEN BOOLEAN ELSE {TRUE},
   jid : {"new@g.us"}]

\* One response file for every query
ResponsePath_Shared(uuid) == FilePath("responses", "u1")

\* path.join(RESPONSES_DIR, `${uuid}.json`)
ResponsePath(uuid) == FilePath("responses", uuid)

\* What queryKernel returns for a parsed response
queryReturn(response) ==
  IF response.status = "error"
    THEN <<"Error: ", IF response.result # "" THEN response.result
                      ELSE "Unknown error">>
  ELSE IF response.result # "" THEN <<response.result>>
  ELSE <<>>

\* The runner's side of input/: follow-up files in the order of their names,
\* and the close sentinel
InputNames == <<"m1", "m2">>

InputPath(name) == FilePath("input", name)

ClosePath == [dir |-> "input", name |-> "_close", ext |-> ""]

Runtimes == {"codex", "gemini"}

\* shouldClose(): whether the sentinel is there
shouldClose(files) == ClosePath \in DOMAIN files

\* drainIpcInput(): the follow-up files that are there, oldest first
drainIpcInput(files) ==
  SelectSeq(InputNames, LAMBDA name : InputPath(name) \in DOMAIN files)

\* input/ once drainIpcInput has deleted what it read
Drained(files) ==
  [q \in {p \in DOMAIN files : p.dir # "input" \/ p = ClosePath} |-> files[q]]

\* Whether main leaves its loop after a query: shouldClose() in the Codex
\* runner, closedDuringQuery of runQuery in the Gemini runner
closesAfterQuery_Never(loop, files) == FALSE

closesAfterQuery(loop, files) ==
  IF loop.runtime = "codex" THEN shouldClose(files) ELSE loop.closedDuringQuery

\* const MAX_TOOL_ROUNDS of the Gemini runner
MAX_TOOL_ROUNDS == 50

\* Whether runQuery of the Gemini runner leaves its loop of generate rounds:
\* the sentinel was seen, a round gave text instead of function calls, or
\* the rounds are used up
roundsEnd(loop) ==
  loop.closedDuringQuery \/ loop.done \/ loop.round >= MAX_TOOL_ROUNDS

IdleLoop ==
  [runtime |-> "", pc |-> "off", prompt |-> <<>>, used |-> {}, piped |-> {},
   queries |-> 0, closedDuringQuery |-> FALSE, ipcPolling |-> FALSE,
   round |-> 0, done |-> FALSE]

IdleWriter == [pc |-> "idle", path |-> <<>>, owner |-> ""]

NoTool == [name |-> "", args |-> <<>>, out |-> Refusal(""), path |-> <<>>]

IdleQuery == [pc |-> "idle", type |-> "", result |-> <<>>, read |-> NoData]

\* An empty IPC directory that the host has not read yet
NoIpc == [files |-> <<>>, read |-> <<>>, pending |-> {}]

NoSandbox ==
  [ctx |-> NoCtx, writer |-> IdleWriter, tool |-> NoTool, calls |-> 0,
   queries |-> [u \in Uuids |-> IdleQuery], loop |-> IdleLoop]

NoCall == [fn |-> "", in |-> <<>>, out |-> <<>>]

----------------------------------------------------------------------------
\* The host's query handlers

STANDALONE_MSG == "Demarch kernel not available -- standalone mode."

\* The query types with a handler, and those the sandbox tools send for
\* write operations
ReadTypes ==
  {"run_status", "sprint_phase", "search_beads", "spec_lookup",
   "review_summary", "next_work", "run_events", "research"}

WriteTypes ==
  {"create_issue", "update_issue", "close_issue", "start_run", "approve_gate"}

\* What the host finds when a query arrives: which CLIs `which` finds, how
\* execFileSync of a CLI ends and what it prints, and whether verdict
\* files exist
HostEnvs ==
  [which : [{"ic", "bd"} -> BOOLEAN],
   exec : {"ok", "fail", "timeout"},
   stdout : {<<>>, <<"{}">>},
   verdicts : BOOLEAN]

\* params of a query: the one string the handler reads (runId, id,
\* artifactId, query), "" when absent
QueryParams == [id : {"", "x"}]

\* execCli: the trimmed stdout, or null when execFileSync throws (exit
\* code, missing binary, timeout)
execCli(env) == IF env.exec = "ok" THEN env.stdout ELSE NULL

\* The handlers of the read types: status, result, and the CLIs run
handleRead(type, params, env) ==
  LET bin == IF type \in {"search_beads", "next_work"} THEN "bd" ELSE "ic"
      failed ==
        CASE type = "run_status" -> "No active run found or ic command failed."
          [] type = "sprint_phase" -> "No active sprint phase or ic command failed."
          [] type = "search_beads" ->
               IF params.id # "" THEN "Bead not found." ELSE "Failed to search beads."
          [] type = "spec_lookup" ->
               IF params.id # "" THEN "Artifact not found."
               ELSE "No artifacts found or ic command failed."
          [] type = "next_work" -> "No ready work items found."
          [] type = "research" -> "Research tool not available."
          [] OTHER -> "No events found or ic command failed."
      result == execCli(env)
  IN  IF type = "review_summary"
        THEN IF env.verdicts
               THEN [status |-> "ok", result |-> <<"[", "]">>, cli |-> <<>>]
               ELSE [status |-> "error", result |-> <<"No review verdicts found.">>,
                     cli |-> <<>>]
      ELSE IF ~env.which[bin]
        THEN [status |-> "error", result |-> <<STANDALONE_MSG>>, cli |-> <<>>]
      ELSE IF type = "research" /\ params.id = ""
        THEN [status |-> "error",
              result |-> <<"research requires a query parameter">>, cli |-> <<>>]
      ELSE IF result = NULL
        THEN [status |-> "error", result |-> <<failed>>, cli |-> <<bin>>]
      ELSE [status |-> "ok", result |-> result, cli |-> <<bin>>]

\* handleQuery running a write type through bd, whoever sent it
handleQuery_RunsWrites(type, params, sourceGroup, isMain, env) ==
  IF type \in WriteTypes
    THEN [status |-> "ok", result |-> execCli(env), cli |-> <<"bd">>]
  ELSE IF type \in ReadTypes THEN handleRead(type, params, env)
  ELSE [status |-> "error", result |-> <<"Unknown query type", type>>,
        cli |-> <<>>]

\* handleQuery: the switch on the type, with its default
handleQuery(type, params, sourceGroup, isMain, env) ==
  IF type \in ReadTypes THEN handleRead(type, params, env)
  ELSE [status |-> "error", result |-> <<"Unknown query type", type>>,
        cli |-> <<>>]

\* The sandbox wire protocol: lines on standard output.  A line is its text
\* and, for a line that is a JSON document, the members of the object.
OUTPUT_START_MARKER == "---NANOCLAW_OUTPUT_START---"
OUTPUT_END_MARKER == "---NANOCLAW_OUTPUT_END---"

TextLine(text) == [text |-> text, json |-> <<>>]

\* The ContainerOutput objects a runner writes; newSessionId "" is undefined
ContainerOutputs ==
  [status : {"success", "error"}, result : {NULL, <<>>, <<"hello">>},
   newSessionId : {"", "s1"}]

\* JSON.stringify: one line, a null member is written, an undefined one is not
stringify(output) ==
  [text |-> "{}",
   json |-> << [key |-> "status", quoted |-> TRUE, value |-> <<output.status>>],
               IF output.result = NULL
                 THEN [key |-> "result", quoted |-> FALSE, value |-> <<"null">>]
                 ELSE [key |-> "result", quoted |-> TRUE, value |-> output.result] >>
            \o IF output.newSessionId = ""
                 THEN <<>>
                 ELSE << [key |-> "newSessionId", quoted |-> TRUE,
                          value |-> <<output.newSessionId>>] >>]

\* writeOutput that leaves the frame open
writeOutput_NoEnd(output) ==
  << TextLine(OUTPUT_START_MARKER), stringify(output) >>

\* writeOutput: three console.log calls
writeOutput(output) ==
  << TextLine(OUTPUT_START_MARKER), stringify(output),
     TextLine(OUTPUT_END_MARKER) >>

\* JSON.parse of the text between the sentinels: the object, or no frame
\* when the text is not one JSON document
Member(json, key) == {i \in DOMAIN json : json[i].key = key}

parseFrame(buf) ==
  IF Len(buf) # 1 \/ Member(buf[1].json, "status") = {}
    THEN <<>>
    ELSE LET json == buf[1].json
             at(key) == json[CHOOSE i \in Member(json, key) : TRUE]
         IN  << [status |-> Head(at("status").value),
                 result |-> IF Member(json, "result") = {} THEN NULL
                            ELSE IF at("result").quoted THEN at("result").value
                            ELSE NULL,
                 newSessionId |-> IF Member(json, "newSessionId") = {} THEN ""
                                  ELSE Head(at("newSessionId").value)] >>

\* The host reading standard output line by line: text outside the sentinels
\* is noise, the text between a start and the next end is one frame
NoParse == [inFrame |-> FALSE, buf |-> <<>>, frames |-> <<>>]

parseLine(st, line) ==
  IF line.text = OUTPUT_START_MARKER
    THEN [st EXCEPT !.inFrame = TRUE, !.buf = <<>>]
  ELSE IF st.inFrame /\ line.text = OUTPUT_END_MARKER
    THEN [inFrame |-> FALSE, buf |-> <<>>,
          frames |-> st.frames \o parseFrame(st.buf)]
  ELSE IF st.inFrame
    THEN [st EXCEPT !.buf = Append(@, line)]
  ELSE st

RECURSIVE parseStdout(_, _)
parseStdout(st, lines) ==
  IF lines = <<>> THEN st
  ELSE parseStdout(parseLine(st, Head(lines)), Tail(lines))

\* What else reaches standard output: nothing, a log line, a line that is
\* itself a JSON document
NoiseChoices ==
  {<<>>, << TextLine("log") >>,
   << TextLine("warn"), stringify([status |-> "error", result |-> <<"noise">>,
                                   newSessionId |-> ""]) >>}

MaxFrames == 2

\* The stream of a run: noise, then each frame followed by noise
RECURSIVE Stream(_, _)
Stream(outputs, noise) ==
  IF outputs = <<>> THEN noise[1]
  ELSE Stream(SubSeq(outputs, 1, Len(outputs) - 1), noise)
         \o writeOutput(outputs[Len(outputs)]) \o noise[Len(outputs) + 1]

\* Strings of the model commands, as sequences of characters
DigitChars == << "0", "1", "2", "3", "4", "5", "6", "7", "8", "9" >>

IndexIn(chars, c) == CHOOSE i \in DOMAIN chars : chars[i] = c

\* String.prototype.toLowerCase
toLowerCase(s) ==
  [i \in DOMAIN s |-> ToLower(s[i])]

\* String.prototype.includes
includes(s, sub) ==
  \E i \in 0..(Len(s) - Len(sub)) : SubSeq(s, i + 1, i + Len(sub)) = sub

\* String.prototype.startsWith
startsWith(s, prefix) ==
  Len(prefix) <= Len(s) /\ SubSeq(s, 1, Len(prefix)) = prefix

\* The decimal value of a sequence of digits
RECURSIVE DigitsValue(_)
DigitsValue(ds) ==
  IF ds = <<>> THEN 0
  ELSE 10 * DigitsValue(SubSeq(ds, 1, Len(ds) - 1))
         + (IndexIn(DigitChars, ds[Len(ds)]) - 1)

\* The longest prefix of s made of digits
RECURSIVE LeadingDigits(_)
LeadingDigits(s) ==
  IF s = <<>> \/ Head(s) \notin Digits THEN <<>>
  ELSE <<Head(s)>> \o LeadingDigits(Tail(s))

\* parseInt(s, 10): an optional sign and the digits that follow it, whatever
\* comes after them; NaN without a digit
parseInt(s) ==
  LET signed == s # <<>> /\ Head(s) \in {"-", "+"}
      ds == LeadingDigits(IF signed THEN Tail(s) ELSE s)
  IN  IF ds = <<>> THEN [nan |-> TRUE, value |-> 0]
      ELSE [nan |-> FALSE,
            value |-> IF signed /\ Head(s) = "-" THEN 0 - DigitsValue(ds)
                      ELSE DigitsValue(ds)]

DEFAULT_RUNTIME == "claude"

MODEL_CATALOG ==
  << [id |-> << "c", "l", "a", "u", "d", "e", "-", "o", "p", "u", "s", "-", "4", "-", "6" >>,
      runtime |-> "claude",
      displayName |-> << "C", "l", "a", "u", "d", "e", " ", "O", "p", "u", "s", " ", "4", ".", "6" >>],
     [id |-> << "c", "l", "a", "u", "d", "e", "-", "s", "o", "n", "n", "e", "t", "-", "4", "-", "6" >>,
      runtime |-> "claude",
      displayName |-> << "C", "l", "a", "u", "d", "e", " ", "S", "o", "n", "n", "e", "t", " ", "4", ".", "6" >>],
     [id |-> << "g", "e", "m", "i", "n", "i", "-", "3", ".", "1", "-", "p", "r", "o" >>,
      runtime |-> "gemini",
      displayName |-> << "G", "e", "m", "i", "n", "i", " ", "3", ".", "1", " ", "P", "r", "o" >>],
     [id |-> << "g", "e", "m", "i", "n", "i", "-", "2", ".", "5", "-", "f", "l", "a", "s", "h" >>,
      runtime |-> "gemini",
      displayName |-> << "G", "e", "m", "i", "n", "i", " ", "2", ".", "5", " ", "F", "l", "a", "s", "h" >>],
     [id |-> << "g", "p", "t", "-", "5", ".", "1", "-", "c", "o", "d", "e", "x" >>,
      runtime |-> "codex",
      displayName |-> << "G", "P", "T", "-", "5", ".", "1", " ", "C", "o", "d", "e", "x" >>] >>

NoModel == [id |-> <<>>, runtime |-> "", displayName |-> <<>>]

\* Array.prototype.find over the catalog: the first of the entries that pass
\* the test, given by their positions, or none
FindEntry(passing) ==
  IF passing = {} THEN NoModel
  ELSE MODEL_CATALOG[CHOOSE k \in passing : \A l \in passing : k <= l]

findModel(id) ==
  FindEntry({k \in DOMAIN MODEL_CATALOG : MODEL_CATALOG[k].id = id})

runtimeForModel(modelId) ==
  LET catalogEntry == findModel(modelId)
      id == toLowerCase(modelId)
      Starts(prefixes) == \E p \in prefixes : startsWith(id, p)
  IN  IF catalogEntry # NoModel THEN catalogEntry.runtime
      ELSE IF Starts({<< "c", "l", "a", "u", "d", "e", "-" >>}) THEN "claude"
      ELSE IF Starts({<< "g", "e", "m", "i", "n", "i", "-" >>}) THEN "gemini"
      ELSE IF Starts({<< "g", "p", "t", "-" >>,
                      << "c", "o", "d", "e", "x", "-" >>,
                      << "o", "1", "-" >>,
                      << "o", "3", "-" >>,
                      << "o", "4", "-" >>})
        THEN "codex"
      ELSE DEFAULT_RUNTIME

\* handleModel, from the argument to the model it switches to
resolveModel(args) ==
  LET exact == findModel(toLowerCase(args))
      num == parseInt(args)
      lower == toLowerCase(args)
      bySubstring ==
        FindEntry({k \in DOMAIN MODEL_CATALOG :
                     \/ includes(MODEL_CATALOG[k].id, lower)
                     \/ includes(toLowerCase(MODEL_CATALOG[k].displayName), lower)})
  IN  IF exact # NoModel THEN exact
      ELSE IF ~num.nan /\ num.value >= 1 /\ num.value <= Len(MODEL_CATALOG)
        THEN MODEL_CATALOG[num.value]
      ELSE IF bySubstring # NoModel THEN bySubstring
      ELSE [id |-> toLowerCase(args), runtime |-> runtimeForModel(toLowerCase(args)),
            displayName |-> args]

\* The arguments of /model: the catalog's ids, some names and ids outside
\* the catalog, and every string of up to MaxArgLen of a few characters
MaxArgLen == 3

ArgChars == {"2", "4", "6", ".", "-", "o", "G"}

ModelArgs ==
  {MODEL_CATALOG[k].id : k \in DOMAIN MODEL_CATALOG}
    \cup {<< "o", "p", "u", "s" >>,
          << "F", "l", "a", "s", "h" >>,
          << "g", "p", "t", "-", "5", ".", "3", "-", "c", "o", "d", "e", "x" >>,
          << "G", "P", "T", "-", "9" >>,
          << "o", "3", "-", "m", "i", "n", "i" >>,
          << "l", "l", "a", "m", "a" >>,
          << "C", "L", "A", "U", "D", "E", "-", "O", "P", "U", "S", "-", "4", "-", "6" >>}
    \cup UNION {[1..n -> ArgChars] : n \in 1..MaxArgLen}

\* The chat commands.  A CommandResult is its text, as the parts it is made
\* of, with what the handler did to the group: its sandbox killed, its
\* session cleared, its model and runtime set, the group written to the
\* registered_groups table, its reported model name deleted.
DEFAULT_MODEL == MODEL_CATALOG[1].id

NoEffects ==
  [kill |-> FALSE, clear |-> FALSE, model |-> NoModel, stored |-> FALSE,
   unreported |-> FALSE]

Reply(text) == [text |-> text, effects |-> NoEffects]

NotRegistered == Reply(<< "This chat is not registered." >>)

handleHelp == Reply(<< "Commands", "/help", "/status", "/model",
                       "/reset", "/new", "/ping", "/chatid" >>)

handleStatus(chatJid, groups, active) ==
  IF chatJid \notin DOMAIN groups THEN NotRegistered
  ELSE Reply(<< "Status for", groups[chatJid].folder,
                IF active THEN "Container: active" ELSE "Container: idle" >>)

\* handleModel without clearGroupSession
handleModel_KeepsSession(chatJid, args, groups) ==
  IF chatJid \notin DOMAIN groups THEN NotRegistered
  ELSE IF args = <<>>
    THEN Reply(<< "Current model:", DEFAULT_MODEL, "Switch: /model <name>" >>)
  ELSE LET newModel == resolveModel(args)
       IN  IF newModel.id = DEFAULT_MODEL
             THEN Reply(<< "Already using", newModel.displayName >>)
           ELSE [text |-> << "Switched from", DEFAULT_MODEL, "to",
                             newModel.displayName >>,
                 effects |-> [kill |-> TRUE, clear |-> FALSE, model |-> newModel,
                              stored |-> TRUE, unreported |-> TRUE]]

\* handleModel; group.model is unset, so the current model is the default one
handleModel(chatJid, args, groups) ==
  IF chatJid \notin DOMAIN groups THEN NotRegistered
  ELSE IF args = <<>>
    THEN Reply(<< "Current model:", DEFAULT_MODEL, "Switch: /model <name>" >>)
  ELSE LET newModel == resolveModel(args)
       IN  IF newModel.id = DEFAULT_MODEL
             THEN Reply(<< "Already using", newModel.displayName >>)
           ELSE [text |-> << "Switched from", DEFAULT_MODEL, "to",
                             newModel.displayName >>,
                 effects |-> [kill |-> TRUE, clear |-> TRUE, model |-> newModel,
                              stored |-> TRUE, unreported |-> TRUE]]

handleReset(chatJid, groups, wasActive) ==
  IF chatJid \notin DOMAIN groups THEN NotRegistered
  ELSE [text |-> << "Session cleared." >>
                   \o (IF wasActive THEN << "Running container stopped." >>
                       ELSE <<>>)
                   \o << "Next message will start a fresh session." >>,
        effects |-> [kill |-> TRUE, clear |-> TRUE, model |-> NoModel,
                     stored |-> FALSE, unreported |-> FALSE]]

handleCommand(chatJid, command, args, groups, active) ==
  CASE command = "help" -> handleHelp
    [] command = "status" -> handleStatus(chatJid, groups, active)
    [] command = "model" -> handleModel(chatJid, args, groups)
    [] command \in {"reset", "new"} -> handleReset(chatJid, groups, active)
    [] OTHER -> Reply(<< "Unknown command: /", command >>)

Commands == {"help", "status", "model", "reset", "new", "foo"}

CommandArgs(command) ==
  IF command = "model" THEN ModelArgs \cup {<<>>} ELSE {<<>>, << "x" >>}

\* The commands the Telegram bot answers itself, and those it passes to
\* onCommand
BotCommands == {"chatid", "ping"}

ForwardedCommands == {"help", "model", "reset", "status"}

\* The Telegram bot on the message /<cmd> <args>: the replies it sends.  A
\* command with no handler reaches the text handler, which skips every text
\* that starts with '/'.
telegramCommand(chatJid, cmd, args, groups, active, throws) ==
  IF cmd = "chatid" THEN << << "Chat ID:", chatJid >> >>
  ELSE IF cmd = "ping" THEN << << "is online." >> >>
  ELSE IF cmd \in ForwardedCommands
    THEN IF throws THEN << << "Command failed. Check logs for details." >> >>
         ELSE << handleCommand(chatJid, cmd, args, groups, active).text >>
  ELSE <<>>

\* The host callback server.  A request is its method, its url, the size of
\* its body and what JSON.parse makes of the body: it throws ("invalid"), or
\* gives null, a scalar, or an object with these members ("" is a member
\* that is missing or empty).
MAX_BODY_BYTES == 1048576

\* readBody rejects once the chunks received exceed MAX_BODY_BYTES
readBodyRejects(bytes) == bytes > MAX_BODY_BYTES

Answer(status, calls) == [statuses |-> << status >>, calls |-> calls]

\* One route of the POST handler: the members are read from data, which
\* throws a TypeError on null inside the try block; a missing member is
\* refused; the dependency is awaited
postRoute(data, first, second, dep, throws) ==
  IF data.json = "null" THEN Answer(500, <<>>)
  ELSE IF data.json # "object" \/ data[first] = "" \/ data[second] = ""
    THEN Answer(400, <<>>)
  ELSE Answer(IF throws THEN 500 ELSE 200, << dep >>)

\* The request listener of startHostCallbackServer
hostCallback(req, throws) ==
  IF req.method = "GET" /\ req.url = "/healthz" THEN Answer(200, <<>>)
  ELSE IF req.method = "GET" /\ req.url = "/v1/ipc/registered-groups"
    THEN Answer(200, << "getRegisteredGroups" >>)
  ELSE IF req.method # "POST" THEN Answer(405, <<>>)
  ELSE IF readBodyRejects(req.bytes) THEN Answer(413, <<>>)
  ELSE IF req.data.json = "invalid" THEN Answer(400, <<>>)
  ELSE IF req.url = "/v1/ipc/send-message"
    THEN postRoute(req.data, "chat_jid", "text", "sendMessage", throws)
  ELSE IF req.url = "/v1/ipc/forward-task"
    THEN postRoute(req.data, "task", "group_folder", "forwardTask", throws)
  ELSE Answer(404, <<>>)

RequestData ==
  [json : {"object"}, chat_jid : {"", "x"}, text : {"", "x"},
   task : {"", "x"}, group_folder : {"", "x"}]
    \cup [json : {"invalid", "null", "scalar"}, chat_jid : {""}, text : {""},
          task : {""}, group_folder : {""}]

Requests ==
  [method : {"GET", "POST", "PUT"},
   url : {"/healthz", "/v1/ipc/registered-groups", "/v1/ipc/send-message",
          "/v1/ipc/forward-task", "/v1/other"},
   bytes : {2, MAX_BODY_BYTES, MAX_BODY_BYTES + 1},
   data : RequestData]

\* Registration of groups.  The registered_groups table holds one row per
\* jid; the groups directory holds one directory per folder.
DiskOf(groups) ==
  [groups |-> groups, dirs |-> {groups[j].folder : j \in DOMAIN groups}]

\* Folder names the safe-path validator rejects
UnsafeFolders == {"../main", ""}

\* resolveGroupFolderPath(folder) returns the directory, or throws
FolderRejected(folder) == folder \in UnsafeFolders

\* setRegisteredGroup(jid, group): the row of the jid is written
setRegisteredGroup(table, jid, group) ==
  [j \in DOMAIN table \cup {jid} |-> IF j = jid THEN group ELSE table[j]]

\* registerGroup without the test of the folder
RegistersGroup_Unchecked(st, jid, group) ==
  [registeredGroups |-> setRegisteredGroup(st.registeredGroups, jid, group),
   disk |-> [groups |-> setRegisteredGroup(st.disk.groups, jid, group),
             dirs |-> st.disk.dirs \cup {group.folder}]]

\* registerGroup of the orchestrator, on its map, the table and the directories
RegistersGroup(st, jid, group) ==
  IF FolderRejected(group.folder) THEN st
  ELSE [registeredGroups |-> setRegisteredGroup(st.registeredGroups, jid, group),
        disk |-> [groups |-> setRegisteredGroup(st.disk.groups, jid, group),
                  dirs |-> st.disk.dirs \cup {group.folder}]]

GroupFolders == {"main", "team", "new"} \cup UnsafeFolders

GroupsWhatsApp ==
  [j \in WhatsAppJids |->
     IF j = "main@g.us"
       THEN [folder |-> "main", requiresTrigger |-> "undefined"]
       ELSE [folder |-> "team", requiresTrigger |-> "undefined"]]

ZeroCursors == [j \in AllJids |-> 0]

InitWith(groups) ==
  /\ phase = "boot"
  /\ store = <<>>
  /\ lastTimestamp = 0
  /\ lastAgentTimestamp = ZeroCursors
  /\ routerState = SavedState(0, ZeroCursors)
  /\ registeredGroups = groups
  /\ \E env \in EnvChoices : maxConcurrent = MAX_CONCURRENT_CONTAINERS(env)
  /\ queue = NewQueue
  /\ retryTimers = {}
  /\ run = [j \in AllJids |-> IdleRun]
  /\ ipcInput = [j \in AllJids |-> <<>>]
  /\ stack = <<>>
  /\ acc = [j \in AllJids |-> NewAcc]
  /\ containers = [j \in AllJids |-> 0]
  /\ sessions = NoSessions
  /\ lastFrame = NoFrame
  /\ ipc = NoIpc
  /\ sandbox = NoSandbox
  /\ lastCall = NoCall
  /\ disk = DiskOf(groups)

Init == InitWith(GroupsWhatsApp)

\* A deployment with one Telegram chat, registered as the main group.
GroupsTelegram ==
  [j \in TelegramJids |-> [folder |-> "main", requiresTrigger |-> "undefined"]]

InitStream == InitWith(GroupsTelegram)

\* A deployment with the main WhatsApp group alone.
GroupsMain ==
  [j \in {"main@g.us"} |-> [folder |-> "main", requiresTrigger |-> "undefined"]]

InitSession == InitWith(GroupsMain)

\* A Telegram chat and its accumulator, under the default cap.
InitAcc ==
  /\ InitWith(GroupsTelegram)
  /\ maxConcurrent = DEFAULT_MAX_CONCURRENT

----------------------------------------------------------------------------
\* Channel onMessage -> storeMessage

StoreMessage(j, c, t) ==
  /\ Quiescent
  /\ UserCount < MaxMsgs
  /\ t >= 1
  /\ store' = Append(store, [jid |-> j, ts |-> t, content |-> c, bot |-> FALSE])
  /\ lastFrame' = NoFrame
  /\ UNCHANGED << containers, sessions, sideVars >>
  /\ UNCHANGED << phase, lastTimestamp, lastAgentTimestamp, routerState,
                  registeredGroups, maxConcurrent, queue, retryTimers, run,
                  ipcInput, stack, acc >>

----------------------------------------------------------------------------
\* startMessageLoop: one iteration, up to the loop over the groups

LoopIteration(rest) ==
  LET r == getNewMessages(DOMAIN registeredGroups, lastTimestamp)
  IN  /\ IF Len(r.messages) > 0
           THEN /\ lastTimestamp' = r.newTimestamp
                /\ routerState' = SavedState(r.newTimestamp, lastAgentTimestamp)
                /\ stack' = <<CallFrame("tick", "", lastTimestamp, JidOrder(r.messages))>>
                            \o rest
           ELSE /\ stack' = rest
                /\ UNCHANGED << lastTimestamp, routerState >>
      /\ lastFrame' = NoFrame
      /\ UNCHANGED << containers, sessions, sideVars >>
      /\ UNCHANGED << phase, store, lastAgentTimestamp, registeredGroups,
                      maxConcurrent, queue, retryTimers, run, ipcInput, acc >>

PollTick ==
  /\ phase = "up"
  /\ Quiescent
  /\ LoopIteration(<<>>)

\* the first iteration runs in main()'s own call chain, right after recovery
StartMessageLoop ==
  /\ stack # <<>>
  /\ Head(stack).k = "startMessageLoop"
  /\ LoopIteration(Tail(stack))

\* for (const [chatJid, groupMessages] of messagesByGroup): one group
LoopGroup ==
  /\ stack # <<>>
  /\ Head(stack).k = "tick"
  /\ LET top == Head(stack)
         j == Head(top.todo)
         rest == IF Len(top.todo) = 1 THEN Tail(stack)
                 ELSE <<[top EXCEPT !.todo = Tail(@)]>> \o Tail(stack)
         group == registeredGroups[j]
         groupMessages == getNewMessagesRows({j}, top.since)
         allPending == getMessagesSince(j, lastAgentTimestamp[j])
         toSend == messagesToSend(allPending, groupMessages)
     IN  IF needsTrigger(group) /\ ~hasTrigger(groupMessages)
           THEN /\ stack' = rest
                /\ UNCHANGED << lastAgentTimestamp, routerState, queue, ipcInput >>
         ELSE IF sendMessage(queue, j)
           THEN /\ ipcInput' = [ipcInput EXCEPT ![j] = Append(@, formatMessages(toSend))]
                /\ lastAgentTimestamp' =
                     [lastAgentTimestamp EXCEPT ![j] = AdvancedCursor(toSend)]
                /\ routerState' = SavedState(lastTimestamp, lastAgentTimestamp')
                /\ stack' = rest
                /\ UNCHANGED queue
         ELSE /\ queue' = enqueueMessageCheck(queue, j)
              /\ stack' = IF StartsNow(queue, j) THEN <<PgmFrame(j)>> \o rest ELSE rest
              /\ UNCHANGED << lastAgentTimestamp, routerState, ipcInput >>
  /\ lastFrame' = NoFrame
  /\ UNCHANGED << containers, sessions, sideVars >>
  /\ UNCHANGED << phase, store, lastTimestamp, registeredGroups, maxConcurrent,
                  retryTimers, run, acc >>

----------------------------------------------------------------------------
\* processGroupMessages, from its call to the spawn of the sandbox
\* (everything before the first await, then runAgent)

ProcessGroupMessagesBegin ==
  /\ stack # <<>>
  /\ Head(stack).k = "processGroupMessages"
  /\ LET j == Head(stack).jid
         sinceTimestamp == lastAgentTimestamp[j]
         missedMessages == getMessagesSince(j, sinceTimestamp)
     IN  IF \/ j \notin DOMAIN registeredGroups
            \/ Len(missedMessages) = 0
            \/ /\ needsTrigger(registeredGroups[j])
               /\ ~hasTrigger(missedMessages)
           THEN /\ run' = [run EXCEPT ![j] = ReturnedRun(TRUE)]
                /\ UNCHANGED << lastAgentTimestamp, routerState, acc, containers >>
           ELSE /\ lastAgentTimestamp' =
                     [lastAgentTimestamp EXCEPT ![j] = AdvancedCursor(missedMessages)]
                /\ routerState' = SavedState(lastTimestamp, lastAgentTimestamp')
                /\ run' = [run EXCEPT ![j] =
                             [IdleRun EXCEPT !.pc = "running",
                                             !.prompt = formatMessages(missedMessages),
                                             !.previousCursor = sinceTimestamp,
                                             !.sessionId =
                                               sessions.mem[registeredGroups[j].folder]]]
                /\ acc' = [acc EXCEPT ![j] = NewAcc]
                /\ containers' = [containers EXCEPT ![j] = @ + 1]
  /\ stack' = Tail(stack)
  /\ lastFrame' = NoFrame
  /\ UNCHANGED << phase, store, lastTimestamp, registeredGroups, maxConcurrent,
                  queue, retryTimers, ipcInput, sessions, sideVars >>

----------------------------------------------------------------------------
\* The streamed-frame callback passed to runAgent

BotMessage(j, text) ==
  [jid |-> j, ts |-> Max2(1, MaxTs), content |-> text, bot |-> TRUE]

OnOutput(j, f) ==
  /\ phase = "up"
  /\ Quiescent
  /\ run[j].pc = "running"
  /\ ~run[j].task
  /\ f.newSessionId \in ReportableSessions(run[j].sessionId)
  /\ sessions' = recordSession(sessions, registeredGroups[j].folder, f.newSessionId)
  /\ UNCHANGED sideVars
  /\ LET useStreaming == supportsStreaming(j)
         text == IF Truthy(f.result) THEN stripInternalTags(f.result) ELSE <<>>
         delivers == Truthy(f.result) /\ text # <<>>
         timer == resetsIdleTimer(f, useStreaming)
     IN  IF f.event # "none" /\ useStreaming
           THEN /\ Len(acc[j].toolLines) + Len(acc[j].textParts) < MaxEvents
                /\ acc' = [acc EXCEPT ![j] =
                             IF f.event = "tool_start"
                               THEN addToolStart(@, <<"l", "s">>)
                               ELSE addTextDelta(@, <<"h">>)]
                /\ lastFrame' = [NoFrame EXCEPT !.jid = j, !.frame = f,
                                                !.timerReset = timer]
                /\ run' = [run EXCEPT ![j].idleTimer = @ \/ timer,
                                      ![j].sessionId = SandboxSession(@, f)]
                /\ UNCHANGED store
         ELSE IF delivers
           THEN /\ BotCount < MaxBot
                /\ \E ok \in BOOLEAN :
                     LET tries == useStreaming /\ FinalEdits(acc[j], text)
                     IN  /\ tries \/ ok
                         /\ lastFrame' =
                              [jid |-> j, frame |-> f,
                               sends |-> IF useStreaming THEN FinalizeSends(tries, ok)
                                         ELSE 1,
                               edits |-> IF useStreaming THEN FinalizeEdits(tries, ok)
                                         ELSE 0,
                               stored |-> 1, timerReset |-> timer]
                /\ acc' = [acc EXCEPT ![j] = IF useStreaming THEN ClearTimer(@) ELSE @]
                /\ store' = Append(store, BotMessage(j, text))
                /\ run' = [run EXCEPT ![j].outputSentToUser = TRUE,
                                      ![j].hadError = @ \/ f.status = "error",
                                      ![j].idleTimer = @ \/ timer,
                                      ![j].sessionId = SandboxSession(@, f)]
         ELSE /\ lastFrame' = [NoFrame EXCEPT !.jid = j, !.frame = f,
                                              !.timerReset = timer]
              /\ run' = [run EXCEPT ![j].hadError = @ \/ f.status = "error",
                                    ![j].idleTimer = @ \/ timer,
                                    ![j].sessionId = SandboxSession(@, f)]
              /\ UNCHANGED << store, acc >>
  /\ UNCHANGED << phase, lastTimestamp, lastAgentTimestamp, routerState,
                  registeredGroups, maxConcurrent, queue, retryTimers, ipcInput,
                  stack, containers >>

\* The debounce timer fires: flush() creates or edits the streamed message
\* (the flush taken as one step, which it is for the frame callbacks: they
\* only meet it in finalize, after `await this.flushChain`).
FlushTimer(j) ==
  /\ phase = "up"
  /\ Quiescent
  /\ acc[j].flushTimer > 0
  /\ \E id \in {0, 1} :
       acc' = [acc EXCEPT ![j].flushTimer = @ - 1,
                          ![j].messageId = IF @ = 0 THEN id ELSE @]
  /\ lastFrame' = NoFrame
  /\ UNCHANGED << containers, sessions, sideVars >>
  /\ UNCHANGED << phase, store, lastTimestamp, lastAgentTimestamp, routerState,
                  registeredGroups, maxConcurrent, queue, retryTimers, run,
                  ipcInput, stack >>

\* The idle timer set by resetIdleTimer expires: queue.closeStdin(chatJid)
\* writes the close sentinel; the sandbox is left running.
IdleTimeout(j) ==
  /\ phase = "up"
  /\ Quiescent
  /\ run[j].pc = "running"
  /\ ~run[j].task
  /\ run[j].idleTimer
  /\ run' = [run EXCEPT ![j].idleTimer = FALSE, ![j].stdinClosed = TRUE]
  /\ lastFrame' = NoFrame
  /\ UNCHANGED << phase, store, lastTimestamp, lastAgentTimestamp, routerState,
                  registeredGroups, maxConcurrent, queue, retryTimers, ipcInput,
                  stack, acc, containers, sessions, sideVars >>

----------------------------------------------------------------------------
\* processGroupMessages after runAgent has returned `output`

ContainerExit(j, output, newSessionId) ==
  /\ phase = "up"
  /\ Quiescent
  /\ run[j].pc = "running"
  /\ ~run[j].task
  /\ LET rollback == RollsBack(output, run[j].hadError, run[j].outputSentToUser)
     IN  /\ IF rollback
              THEN /\ lastAgentTimestamp' =
                        [lastAgentTimestamp EXCEPT ![j] = run[j].previousCursor]
                   /\ routerState' = SavedState(lastTimestamp, lastAgentTimestamp')
              ELSE UNCHANGED << lastAgentTimestamp, routerState >>
         /\ run' = [run EXCEPT ![j].pc = "returned",
                               ![j].output = output,
                               ![j].ret = ~rollback,
                               ![j].idleTimer = FALSE,
                               ![j].stdinClosed = FALSE]
  /\ acc' = [acc EXCEPT ![j] = ClearTimer(@)]
  /\ containers' = [containers EXCEPT ![j] = @ - 1]
  /\ sessions' = recordSession(sessions, registeredGroups[j].folder, newSessionId)
  /\ UNCHANGED sideVars
  /\ lastFrame' = NoFrame
  /\ UNCHANGED << phase, store, lastTimestamp, registeredGroups, maxConcurrent,
                  queue, retryTimers, ipcInput, stack >>

----------------------------------------------------------------------------
\* GroupQueue.runForGroup / runTask after the invocation has returned:
\* retry bookkeeping, release of the slot, drainGroup.

Finally(j) ==
  /\ stack = <<>>
  /\ run[j].pc = "returned"
  /\ LET success == run[j].task \/ run[j].ret
         q2 == Release(queue, j)
         work == NextWork(q2, j)
     IN  /\ \E retry \in RetryOutcomes(success) :
              retryTimers' = IF retry THEN retryTimers \cup {j} ELSE retryTimers
         /\ IF work = "task"
              THEN /\ queue' = runTask(q2, j)
                   /\ run' = [run EXCEPT ![j] = TaskRun]
                   /\ containers' = [containers EXCEPT ![j] = @ + 1]
                   /\ stack' = <<>>
            ELSE IF work = "messages"
              THEN /\ queue' = runForGroup(q2, j)
                   /\ run' = [run EXCEPT ![j] = IdleRun]
                   /\ stack' = <<PgmFrame(j)>>
                   /\ UNCHANGED << containers, sessions, sideVars >>
            ELSE /\ queue' = q2
                 /\ run' = [run EXCEPT ![j] = IdleRun]
                 /\ stack' = <<DrainWaitingFrame>>
                 /\ UNCHANGED << containers, sessions, sideVars >>
  /\ ipcInput' = [ipcInput EXCEPT ![j] = <<>>]
  /\ lastFrame' = NoFrame
  /\ UNCHANGED << phase, store, lastTimestamp, lastAgentTimestamp, routerState,
                  registeredGroups, maxConcurrent, acc, sessions, sideVars >>

\* drainWaiting: one turn of its while loop
DrainWaitingStep ==
  /\ stack # <<>>
  /\ Head(stack).k = "drainWaiting"
  /\ IF queue.waitingGroups = <<>> \/ CapReached(queue)
       THEN /\ stack' = Tail(stack)
            /\ UNCHANGED << queue, run, containers >>
       ELSE LET next == Head(queue.waitingGroups)
                q1 == [queue EXCEPT !.waitingGroups = Tail(@)]
                work == NextWork(q1, next)
            IN  IF work = "task"
                  THEN /\ queue' = runTask(q1, next)
                       /\ run' = [run EXCEPT ![next] = TaskRun]
                       /\ containers' = [containers EXCEPT ![next] = @ + 1]
                       /\ UNCHANGED stack
                ELSE IF work = "messages"
                  THEN /\ queue' = runForGroup(q1, next)
                       /\ stack' = <<PgmFrame(next)>> \o stack
                       /\ UNCHANGED << run, containers >>
                ELSE /\ queue' = q1
                     /\ UNCHANGED << stack, run, containers >>
  /\ lastFrame' = NoFrame
  /\ UNCHANGED << phase, store, lastTimestamp, lastAgentTimestamp, routerState,
                  registeredGroups, maxConcurrent, retryTimers, ipcInput, acc,
                  sessions, sideVars >>

\* scheduleRetry's timer fires
RetryTimer(j) ==
  /\ phase = "up"
  /\ Quiescent
  /\ j \in retryTimers
  /\ retryTimers' = retryTimers \ {j}
  /\ queue' = enqueueMessageCheck(queue, j)
  /\ stack' = IF StartsNow(queue, j) THEN <<PgmFrame(j)>> ELSE <<>>
  /\ lastFrame' = NoFrame
  /\ UNCHANGED << containers, sessions, sideVars >>
  /\ UNCHANGED << phase, store, lastTimestamp, lastAgentTimestamp, routerState,
                  registeredGroups, maxConcurrent, run, ipcInput, acc >>

\* The scheduler raises a due task for the group.
EnqueueTask(j) ==
  /\ phase = "up"
  /\ Quiescent
  /\ j \in DOMAIN registeredGroups
  /\ queue.groups[j].pendingTasks < MaxPendingTasks
  /\ queue' = enqueueTask(queue, j)
  /\ run' = IF StartsNow(queue, j) THEN [run EXCEPT ![j] = TaskRun] ELSE run
  /\ containers' = IF StartsNow(queue, j)
                     THEN [containers EXCEPT ![j] = @ + 1] ELSE containers
  /\ lastFrame' = NoFrame
  /\ UNCHANGED << phase, store, lastTimestamp, lastAgentTimestamp, routerState,
                  registeredGroups, maxConcurrent, retryTimers, ipcInput, stack,
                  acc, sessions, sideVars >>

\* A task's sandbox has finished.
TaskExit(j) ==
  /\ phase = "up"
  /\ Quiescent
  /\ run[j].pc = "running"
  /\ run[j].task
  /\ run' = [run EXCEPT ![j].pc = "returned"]
  /\ containers' = [containers EXCEPT ![j] = @ - 1]
  /\ lastFrame' = NoFrame
  /\ UNCHANGED << phase, store, lastTimestamp, lastAgentTimestamp, routerState,
                  registeredGroups, maxConcurrent, queue, retryTimers, ipcInput,
                  stack, acc, sessions, sideVars >>

----------------------------------------------------------------------------
\* Process lifecycle

\* The process dies and is started again: in-memory state is lost, loadState
\* reads the cursors back, cleanupOrphans removes the sandboxes.
Crash ==
  /\ phase = "up"
  /\ Quiescent
  /\ phase' = "boot"
  /\ lastTimestamp' = routerState.last_timestamp
  /\ lastAgentTimestamp' = routerState.last_agent_timestamp
  /\ queue' = NewQueue
  /\ retryTimers' = {}
  /\ run' = [j \in AllJids |-> IdleRun]
  /\ ipcInput' = [j \in AllJids |-> <<>>]
  /\ acc' = [j \in AllJids |-> NewAcc]
  /\ containers' = [j \in AllJids |-> 0]
  /\ sessions' = [sessions EXCEPT !.mem = sessions.db]
  /\ UNCHANGED sideVars
  /\ lastFrame' = NoFrame
  /\ UNCHANGED << store, routerState, registeredGroups, maxConcurrent, stack >>

\* handleReset (/reset, /new): queue.killGroup(chatJid) asks the group's
\* sandbox to stop; clearGroupSession(group.folder)
Reset(j) ==
  /\ phase = "up"
  /\ Quiescent
  /\ j \in DOMAIN registeredGroups
  /\ sessions' = clearGroupSession(sessions, registeredGroups[j].folder)
  /\ UNCHANGED sideVars
  /\ run' = IF run[j].pc = "running" THEN [run EXCEPT ![j].killed = TRUE] ELSE run
  /\ lastFrame' = NoFrame
  /\ UNCHANGED << phase, store, lastTimestamp, lastAgentTimestamp, routerState,
                  registeredGroups, maxConcurrent, queue, retryTimers, ipcInput,
                  stack, acc, containers >>

\* main(): recoverPendingMessages(); startMessageLoop()
Main ==
  /\ phase = "boot"
  /\ phase' = "up"
  /\ \E order \in Orders(DOMAIN registeredGroups) :
       stack' = << CallFrame("recoverPendingMessages", "", 0, order),
                   CallFrame("startMessageLoop", "", 0, <<>>) >>
  /\ lastFrame' = NoFrame
  /\ UNCHANGED << containers, sessions, sideVars >>
  /\ UNCHANGED << store, lastTimestamp, lastAgentTimestamp, routerState,
                  registeredGroups, maxConcurrent, queue, retryTimers, run,
                  ipcInput, acc >>

\* recoverPendingMessages: one group of its loop
RecoverStep ==
  /\ stack # <<>>
  /\ Head(stack).k = "recoverPendingMessages"
  /\ LET top == Head(stack)
     IN  IF top.todo = <<>>
           THEN /\ stack' = Tail(stack)
                /\ UNCHANGED queue
           ELSE LET j == Head(top.todo)
                    rest == <<[top EXCEPT !.todo = Tail(@)]>> \o Tail(stack)
                    pending == getMessagesSince(j, recoverySince(j))
                IN  IF Len(pending) > 0
                      THEN /\ queue' = enqueueMessageCheck(queue, j)
                           /\ stack' = IF StartsNow(queue, j)
                                         THEN <<PgmFrame(j)>> \o rest ELSE rest
                      ELSE /\ stack' = rest
                           /\ UNCHANGED queue
  /\ lastFrame' = NoFrame
  /\ UNCHANGED << containers, sessions, sideVars >>
  /\ UNCHANGED << phase, store, lastTimestamp, lastAgentTimestamp, routerState,
                  registeredGroups, maxConcurrent, retryTimers, run, ipcInput,
                  acc >>

----------------------------------------------------------------------------

\* StreamAccumulator at the grain of its awaits.  The callbacks of one
\* invocation run one after the other (each frame callback is awaited), so
\* addToolStart, addTextDelta, finalize and dispose are not called while a
\* finalize is running; timers, flushes and channel calls complete in
\* between.

\* The summary of the n-th tool start
SummaryOf(n) == <<LowerCase[n]>>

\* Raw results handed to finalize: a reply, a reply of exactly
\* MAX_MESSAGE_LENGTH characters, internal reasoning only, and a reply
\* whose opening tag is split around an internal block
FinalTexts ==
  { <<"o", "k">>,
    <<"L">>,
    <<"<internal>", "x", "</internal>">>,
    <<"<inter", "<internal>", "x", "</internal>", "nal>", "y", "</internal>">> }

AccToolStart(j) ==
  /\ acc[j].fin.phase = "none"
  /\ acc[j].toolStarts < MaxToolStarts
  /\ acc' = [acc EXCEPT ![j] =
               [addToolStart(@, SummaryOf(@.toolStarts + 1))
                  EXCEPT !.toolStarts = @ + 1]]
  /\ UNCHANGED << phase, store, lastTimestamp, lastAgentTimestamp, routerState,
                  registeredGroups, maxConcurrent, queue, retryTimers, run,
                  ipcInput, stack, containers, sessions, sideVars, lastFrame >>

AccTextDelta(j) ==
  /\ acc[j].fin.phase = "none"
  /\ Len(acc[j].textParts) < MaxDeltas
  /\ acc' = [acc EXCEPT ![j] = addTextDelta(@, <<"h">>)]
  /\ UNCHANGED << phase, store, lastTimestamp, lastAgentTimestamp, routerState,
                  registeredGroups, maxConcurrent, queue, retryTimers, run,
                  ipcInput, stack, containers, sessions, sideVars, lastFrame >>

\* The timer callback of scheduleFlush: the flush is chained
AccTimerFires(j) ==
  /\ acc[j].flushTimer > 0
  /\ Len(acc[j].jobs) < MaxFlushes
  /\ acc' = [acc EXCEPT ![j].flushTimer = @ - 1,
                        ![j].jobs = Append(@, NewJob)]
  /\ UNCHANGED << phase, store, lastTimestamp, lastAgentTimestamp, routerState,
                  registeredGroups, maxConcurrent, queue, retryTimers, run,
                  ipcInput, stack, containers, sessions, sideVars, lastFrame >>

\* flush(), up to its await: nothing to write, or the channel call is made
AccFlushStart(j, k) ==
  /\ k \in DOMAIN acc[j].jobs
  /\ acc[j].jobs[k].status = "queued"
  /\ CanStart(acc[j].jobs, k)
  /\ acc' = [acc EXCEPT ![j].jobs[k] =
               IF buildContent(acc[j]) = <<>>
                 THEN [@ EXCEPT !.status = "done"]
                 ELSE [status |-> "running",
                       call |-> FlushCall(acc[j].messageId),
                       id |-> acc[j].messageId]]
  /\ UNCHANGED << phase, store, lastTimestamp, lastAgentTimestamp, routerState,
                  registeredGroups, maxConcurrent, queue, retryTimers, run,
                  ipcInput, stack, containers, sessions, sideVars, lastFrame >>

\* The channel call of flush k returns: sendMessageWithId gives the id of
\* the new message (k, the k-th write) or null, which is assigned to
\* messageId; editMessage gives a boolean that flush drops.
AccFlushDone(j, k, ok) ==
  /\ k \in DOMAIN acc[j].jobs
  /\ acc[j].jobs[k].status = "running"
  /\ acc' = [acc EXCEPT ![j].jobs[k].status = "done",
                        ![j].messageId =
                          IF acc[j].jobs[k].call = "send"
                            THEN (IF ok THEN k ELSE 0)
                            ELSE @]
  /\ UNCHANGED << phase, store, lastTimestamp, lastAgentTimestamp, routerState,
                  registeredGroups, maxConcurrent, queue, retryTimers, run,
                  ipcInput, stack, containers, sessions, sideVars, lastFrame >>

\* finalize(rawResult), up to `await this.flushChain`
AccFinalize(j, rawResult) ==
  /\ acc[j].fin.phase = "none"
  /\ LET cleanText == stripInternalTags(rawResult)
     IN  acc' = [acc EXCEPT ![j] =
                   IF cleanText = <<>> THEN ClearTimer(@)
                   ELSE [ClearTimer(@) EXCEPT
                           !.fin = [NoFinal EXCEPT !.phase = "waiting",
                                                   !.awaits = Len(acc[j].jobs),
                                                   !.cleanText = cleanText]]]
  /\ UNCHANGED << phase, store, lastTimestamp, lastAgentTimestamp, routerState,
                  registeredGroups, maxConcurrent, queue, retryTimers, run,
                  ipcInput, stack, containers, sessions, sideVars, lastFrame >>

\* finalize after the await: the final edit, or the fallback sendMessage
AccFinalWrite(j) ==
  /\ acc[j].fin.phase = "waiting"
  /\ ChainSettled(acc[j].jobs, acc[j].fin.awaits)
  /\ LET cleanText == acc[j].fin.cleanText
     IN  acc' = [acc EXCEPT ![j].fin =
                   IF FinalEdits(acc[j], cleanText)
                     THEN [@ EXCEPT !.phase = "editing",
                                    !.content = FinalContent(acc[j], cleanText),
                                    !.id = acc[j].messageId]
                     ELSE [@ EXCEPT !.phase = "sending", !.content = cleanText]]
  /\ UNCHANGED << phase, store, lastTimestamp, lastAgentTimestamp, routerState,
                  registeredGroups, maxConcurrent, queue, retryTimers, run,
                  ipcInput, stack, containers, sessions, sideVars, lastFrame >>

\* The channel call of finalize returns: `if (ok) return`, else the
\* fallback sendMessage; after sendMessage finalize returns.
AccFinalWriteDone(j, ok) ==
  /\ acc[j].fin.phase \in {"editing", "sending"}
  /\ acc' = [acc EXCEPT ![j].fin =
               IF @.phase = "editing" /\ ~ok
                 THEN [@ EXCEPT !.phase = "sending",
                                !.content = acc[j].fin.cleanText,
                                !.id = 0]
                 ELSE NoFinal,
                        ![j].final =
               IF acc[j].fin.phase = "editing" /\ ok
                 THEN [id |-> acc[j].fin.id, content |-> acc[j].fin.content]
                 ELSE @]
  /\ UNCHANGED << phase, store, lastTimestamp, lastAgentTimestamp, routerState,
                  registeredGroups, maxConcurrent, queue, retryTimers, run,
                  ipcInput, stack, containers, sessions, sideVars, lastFrame >>

AccDispose(j) ==
  /\ acc[j].fin.phase = "none"
  /\ acc[j].flushTimer > 0
  /\ acc' = [acc EXCEPT ![j] = ClearTimer(@)]
  /\ UNCHANGED << phase, store, lastTimestamp, lastAgentTimestamp, routerState,
                  registeredGroups, maxConcurrent, queue, retryTimers, run,
                  ipcInput, stack, containers, sessions, sideVars, lastFrame >>

----------------------------------------------------------------------------

\* Message handling: store, loop, queue dispatch, frames, retries
NextCore(frames) ==
  \/ \E j \in DOMAIN registeredGroups, c \in Contents, t \in {MaxTs, MaxTs + 1} :
       StoreMessage(j, c, t)
  \/ Main
  \/ RecoverStep
  \/ StartMessageLoop
  \/ PollTick
  \/ LoopGroup
  \/ ProcessGroupMessagesBegin
  \/ \E j \in DOMAIN registeredGroups, f \in frames : OnOutput(j, f)
  \/ \E j \in DOMAIN registeredGroups, o \in {"success", "error"} :
       \E id \in {"", run[j].sessionId} : ContainerExit(j, o, id)
  \/ \E j \in AllJids : Finally(j)
  \/ DrainWaitingStep
  \/ \E j \in AllJids : RetryTimer(j)

\* Two WhatsApp groups, with scheduled tasks and restarts of the process
Next ==
  \/ NextCore(ShortFrames)
  \/ \E j \in AllJids : EnqueueTask(j)
  \/ \E j \in AllJids : TaskExit(j)
  \/ Crash

Spec == Init /\ [][Next]_vars

\* One Telegram chat, whose channel can edit messages: streamed output
NextStream ==
  \/ NextCore(Frames)
  \/ \E j \in DOMAIN registeredGroups : FlushTimer(j)
  \/ \E j \in DOMAIN registeredGroups : IdleTimeout(j)

SpecStream == InitStream /\ [][NextStream]_vars

\* One WhatsApp chat whose sandboxes report session ids, with /reset and
\* restarts of the process
NextSession ==
  \/ NextCore(WithSessions(FramesWith({<<"o", "k">>})))
  \/ \E j \in DOMAIN registeredGroups : Reset(j)
  \/ Crash

SpecSession == InitSession /\ [][NextSession]_vars

\* The accumulator of one Telegram chat, through its methods, timers and
\* channel calls
NextAcc ==
  \/ \E j \in DOMAIN registeredGroups : AccToolStart(j)
  \/ \E j \in DOMAIN registeredGroups : AccTextDelta(j)
  \/ \E j \in DOMAIN registeredGroups : AccTimerFires(j)
  \/ \E j \in DOMAIN registeredGroups, k \in 1..MaxFlushes : AccFlushStart(j, k)
  \/ \E j \in DOMAIN registeredGroups, k \in 1..MaxFlushes, ok \in BOOLEAN :
       AccFlushDone(j, k, ok)
  \/ \E j \in DOMAIN registeredGroups, rawResult \in FinalTexts :
       AccFinalize(j, rawResult)
  \/ \E j \in DOMAIN registeredGroups : AccFinalWrite(j)
  \/ \E j \in DOMAIN registeredGroups, ok \in BOOLEAN : AccFinalWriteDone(j, ok)
  \/ \E j \in DOMAIN registeredGroups : AccDispose(j)

SpecAcc == InitAcc /\ [][NextAcc]_vars

----------------------------------------------------------------------------
\* The sandbox side of IPC: tool calls and kernel queries, which write
\* files, and the host, which reads them.  The code of a tool call, and of
\* queryKernel up to its first await, runs without another step of the
\* sandbox's process in between; the host is another process.

MaxToolCalls == 2

\* The runner starts with the context of its ContainerInput
SandboxStart(ctx) ==
  /\ sandbox.ctx = NoCtx
  /\ sandbox' = [sandbox EXCEPT !.ctx = ctx]
  /\ UNCHANGED << phase, store, lastTimestamp, lastAgentTimestamp, routerState,
                  registeredGroups, maxConcurrent, queue, retryTimers, run,
                  ipcInput, stack, acc, containers, sessions, disk, lastFrame,
                  ipc, lastCall >>

\* executeTool(name, args, ipcCtx), up to the open of the file by
\* writeIpcFile, or to its return when the tool writes nothing
ToolCall(name, args, filename) ==
  /\ sandbox.ctx # NoCtx
  /\ sandbox.writer.pc = "idle"
  /\ sandbox.calls < MaxToolCalls
  /\ LET out == executeTool(name, args, sandbox.ctx)
         filepath == FilePath(out.dir, filename)
         writes == out.data # NoData
     IN  /\ sandbox' =
               [sandbox EXCEPT
                  !.calls = @ + 1,
                  !.tool = [name |-> name, args |-> args, out |-> out,
                            path |-> IF writes THEN filepath ELSE <<>>],
                  !.writer = IF writes
                               THEN [pc |-> "open", path |-> filepath,
                                     owner |-> "tool"]
                               ELSE @]
         /\ ipc' = IF writes
                     THEN [ipc EXCEPT !.files =
                             WriteFile(@, TempPath(filepath), out.data, FALSE)]
                     ELSE ipc
  /\ UNCHANGED << phase, store, lastTimestamp, lastAgentTimestamp, routerState,
                  registeredGroups, maxConcurrent, queue, retryTimers, run,
                  ipcInput, stack, acc, containers, sessions, disk, lastFrame, lastCall >>

\* queryKernel(type), up to the open of the query file
QueryStart(uuid, type) ==
  /\ sandbox.ctx # NoCtx
  /\ sandbox.writer.pc = "idle"
  /\ sandbox.queries[uuid].pc = "idle"
  /\ LET queryPath == FilePath("queries", uuid)
     IN  /\ sandbox' =
               [sandbox EXCEPT
                  !.queries[uuid] = [@ EXCEPT !.pc = "writing", !.type = type],
                  !.writer = [pc |-> "open", path |-> queryPath, owner |-> uuid]]
         /\ ipc' = [ipc EXCEPT !.files =
                      WriteFile(@, TempPath(queryPath),
                                [type |-> type, uuid |-> uuid], FALSE)]
  /\ UNCHANGED << phase, store, lastTimestamp, lastAgentTimestamp, routerState,
                  registeredGroups, maxConcurrent, queue, retryTimers, run,
                  ipcInput, stack, acc, containers, sessions, disk, lastFrame, lastCall >>

\* fs.writeFileSync returns: the whole text is in the file
WriteEnd ==
  /\ sandbox.writer.pc = "open"
  /\ sandbox' = [sandbox EXCEPT !.writer.pc = "written"]
  /\ LET p == TempPath(sandbox.writer.path)
     IN  ipc' = [ipc EXCEPT !.files = WriteFile(@, p, @[p].data, TRUE)]
  /\ UNCHANGED << phase, store, lastTimestamp, lastAgentTimestamp, routerState,
                  registeredGroups, maxConcurrent, queue, retryTimers, run,
                  ipcInput, stack, acc, containers, sessions, disk, lastFrame, lastCall >>

\* fs.renameSync(tempPath, filepath); the tool returns, queryKernel goes on
\* to poll
RenameStep ==
  /\ sandbox.writer.pc = "written"
  /\ sandbox' =
       [sandbox EXCEPT
          !.writer = IdleWriter,
          !.queries = IF sandbox.writer.owner \in Uuids
                        THEN [@ EXCEPT ![sandbox.writer.owner].pc = "polling"]
                        ELSE @]
  /\ ipc' = [ipc EXCEPT !.files =
               Rename(@, TempPath(sandbox.writer.path), sandbox.writer.path)]
  /\ UNCHANGED << phase, store, lastTimestamp, lastAgentTimestamp, routerState,
                  registeredGroups, maxConcurrent, queue, retryTimers, run,
                  ipcInput, stack, acc, containers, sessions, disk, lastFrame, lastCall >>

\* The host's watcher takes one file with a final name from messages/,
\* tasks/ or queries/: it reads it, removes it, and keeps a well-formed
\* query for its answer
HostRead(p) ==
  /\ p \in DOMAIN ipc.files
  /\ p.ext = ".json"
  /\ p.dir \in {"messages", "tasks", "queries"}
  /\ ipc' = [ipc EXCEPT
               !.files = Unlink(@, p),
               !.read = [path |-> p, data |-> ipc.files[p].data,
                         whole |-> ipc.files[p].whole],
               !.pending = IF p.dir = "queries" /\ ipc.files[p].whole
                             THEN @ \cup {ipc.files[p].data.uuid} ELSE @]
  /\ UNCHANGED << phase, store, lastTimestamp, lastAgentTimestamp, routerState,
                  registeredGroups, maxConcurrent, queue, retryTimers, run,
                  ipcInput, stack, acc, containers, sessions, disk, lastFrame,
                  sandbox, lastCall >>

\* The host answers a query: responses/{uuid}.json appears whole, with the
\* status and the result of that query
HostRespond(uuid, status, result) ==
  /\ uuid \in ipc.pending
  /\ ipc' = [ipc EXCEPT
               !.files = WriteFile(@, FilePath("responses", uuid),
                                   [type |-> "response", uuid |-> uuid,
                                    status |-> status, result |-> result],
                                   TRUE),
               !.pending = @ \ {uuid}]
  /\ UNCHANGED << phase, store, lastTimestamp, lastAgentTimestamp, routerState,
                  registeredGroups, maxConcurrent, queue, retryTimers, run,
                  ipcInput, stack, acc, containers, sessions, disk, lastFrame,
                  sandbox, lastCall >>

\* One turn of the poll loop of queryKernel that finds its response file
QueryPoll(uuid) ==
  /\ sandbox.queries[uuid].pc = "polling"
  /\ sandbox.writer.pc = "idle"
  /\ ResponsePath(uuid) \in DOMAIN ipc.files
  /\ LET raw == ipc.files[ResponsePath(uuid)]
     IN  /\ sandbox' =
               [sandbox EXCEPT !.queries[uuid] =
                  [@ EXCEPT !.pc = "done",
                            !.read = raw.data,
                            !.result = IF raw.whole THEN queryReturn(raw.data)
                                       ELSE <<"Error parsing response">>]]
         /\ ipc' = IF raw.whole
                     THEN [ipc EXCEPT !.files = Unlink(@, ResponsePath(uuid))]
                     ELSE ipc
  /\ UNCHANGED << phase, store, lastTimestamp, lastAgentTimestamp, routerState,
                  registeredGroups, maxConcurrent, queue, retryTimers, run,
                  ipcInput, stack, acc, containers, sessions, disk, lastFrame, lastCall >>

\* The deadline has passed at the head of the poll loop
QueryTimeout(uuid) ==
  /\ sandbox.queries[uuid].pc = "polling"
  /\ sandbox.writer.pc = "idle"
  /\ sandbox' = [sandbox EXCEPT !.queries[uuid] =
                   [@ EXCEPT !.pc = "done",
                             !.result = <<"Error: Query timed out">>]]
  /\ ipc' = [ipc EXCEPT !.files = Unlink(@, FilePath("queries", uuid))]
  /\ UNCHANGED << phase, store, lastTimestamp, lastAgentTimestamp, routerState,
                  registeredGroups, maxConcurrent, queue, retryTimers, run,
                  ipcInput, stack, acc, containers, sessions, disk, lastFrame, lastCall >>

\* One sandbox and the host's watcher on its IPC directory
NextIpc ==
  \/ \E ctx \in Ctxs : SandboxStart(ctx)
  \/ \E name \in ToolNames, filename \in FileNames :
       \E args \in ToolArgs(name) : ToolCall(name, args, filename)
  \/ \E uuid \in {"u1"}, type \in {"run_status"} : QueryStart(uuid, type)
  \/ WriteEnd
  \/ RenameStep
  \/ \E p \in DOMAIN ipc.files : HostRead(p)
  \/ \E uuid \in Uuids, status \in {"ok", "error"} :
       \E result \in {"", uuid} : HostRespond(uuid, status, result)
  \/ \E uuid \in Uuids : QueryPoll(uuid)
  \/ \E uuid \in Uuids : QueryTimeout(uuid)

InitIpc == InitWith(GroupsWhatsApp) /\ maxConcurrent = DEFAULT_MAX_CONCURRENT

SpecIpc == InitIpc /\ [][NextIpc]_vars

\* One sandbox with two queries in flight, and the host
NextQuery ==
  \/ \E ctx \in Ctxs : SandboxStart(ctx)
  \/ \E uuid \in Uuids, type \in {"run_status"} : QueryStart(uuid, type)
  \/ WriteEnd
  \/ RenameStep
  \/ \E p \in DOMAIN ipc.files : HostRead(p)
  \/ \E uuid \in Uuids, status \in {"ok", "error"} :
       \E result \in {"", uuid} : HostRespond(uuid, status, result)
  \/ \E uuid \in Uuids : QueryPoll(uuid)
  \/ \E uuid \in Uuids : QueryTimeout(uuid)

SpecQuery == InitIpc /\ [][NextQuery]_vars

----------------------------------------------------------------------------
\* Calls of the host's handlers, each with the arguments and the
\* surroundings it can meet.  The handlers keep no state of their own
\* between calls: a behaviour observes one call.

HandleQuery(type, params, sourceGroup, isMain, env) ==
  /\ lastCall = NoCall
  /\ lastCall' =
       [fn |-> "handleQuery",
        in |-> [type |-> type, params |-> params, sourceGroup |-> sourceGroup,
                isMain |-> isMain, env |-> env],
        out |-> handleQuery(type, params, sourceGroup, isMain, env)]
  /\ UNCHANGED << phase, store, lastTimestamp, lastAgentTimestamp, routerState,
                  registeredGroups, maxConcurrent, queue, retryTimers, run,
                  ipcInput, stack, acc, containers, sessions, disk, lastFrame,
                  ipc, sandbox >>

\* A run writes its frames among other output and the host parses the stream
WriteOutputs(outputs, noise) ==
  /\ lastCall = NoCall
  /\ lastCall' =
       [fn |-> "writeOutput",
        in |-> [outputs |-> outputs, noise |-> noise],
        out |-> parseStdout(NoParse, Stream(outputs, noise)).frames]
  /\ UNCHANGED << phase, store, lastTimestamp, lastAgentTimestamp, routerState,
                  registeredGroups, maxConcurrent, queue, retryTimers, run,
                  ipcInput, stack, acc, containers, sessions, disk, lastFrame,
                  ipc, sandbox >>

\* /model <args> in a registered chat: the model handleModel resolves
HandleModel(args) ==
  /\ lastCall = NoCall
  /\ lastCall' = [fn |-> "handleModel", in |-> [args |-> args],
                  out |-> resolveModel(args)]
  /\ UNCHANGED << phase, store, lastTimestamp, lastAgentTimestamp, routerState,
                  registeredGroups, maxConcurrent, queue, retryTimers, run,
                  ipcInput, stack, acc, containers, sessions, disk, lastFrame,
                  ipc, sandbox >>

\* handleCommand called for a chat
HandleCommand(chatJid, command, args) ==
  /\ lastCall = NoCall
  /\ lastCall' =
       [fn |-> "handleCommand",
        in |-> [chatJid |-> chatJid, command |-> command, args |-> args],
        out |-> handleCommand(chatJid, command, args, registeredGroups,
                              queue.groups[chatJid].active)]
  /\ UNCHANGED << phase, store, lastTimestamp, lastAgentTimestamp, routerState,
                  registeredGroups, maxConcurrent, queue, retryTimers, run,
                  ipcInput, stack, acc, containers, sessions, disk, lastFrame,
                  ipc, sandbox >>

\* The message /<cmd> <args> arrives in a Telegram chat; the orchestrator's
\* handler returns or throws
TelegramCommand(chatJid, cmd, args, throws) ==
  /\ lastCall = NoCall
  /\ lastCall' =
       [fn |-> "telegramCommand",
        in |-> [chatJid |-> chatJid, command |-> cmd, args |-> args,
                throws |-> throws],
        out |-> telegramCommand(chatJid, cmd, args, registeredGroups,
                                queue.groups[chatJid].active, throws)]
  /\ UNCHANGED << phase, store, lastTimestamp, lastAgentTimestamp, routerState,
                  registeredGroups, maxConcurrent, queue, retryTimers, run,
                  ipcInput, stack, acc, containers, sessions, disk, lastFrame,
                  ipc, sandbox >>

\* A request to the host callback server; the dependency it reaches
\* returns or throws
HostCallback(req, throws) ==
  /\ lastCall = NoCall
  /\ lastCall' = [fn |-> "hostCallback", in |-> [req |-> req, throws |-> throws],
                  out |-> hostCallback(req, throws)]
  /\ UNCHANGED << phase, store, lastTimestamp, lastAgentTimestamp, routerState,
                  registeredGroups, maxConcurrent, queue, retryTimers, run,
                  ipcInput, stack, acc, containers, sessions, disk, lastFrame,
                  ipc, sandbox >>

NextCalls ==
  \/ \E type \in ReadTypes \cup WriteTypes \cup {"bogus"}, params \in QueryParams,
        ctx \in Ctxs, env \in HostEnvs :
       HandleQuery(type, params, ctx.groupFolder, ctx.isMain, env)
  \/ \E n \in 1..MaxFrames :
       \E outputs \in [1..n -> ContainerOutputs],
          noise \in [1..(MaxFrames + 1) -> NoiseChoices] :
         WriteOutputs(outputs, noise)
  \/ \E args \in ModelArgs : HandleModel(args)
  \/ \E chatJid \in AllJids, command \in Commands :
       \E args \in CommandArgs(command) : HandleCommand(chatJid, command, args)
  \/ \E chatJid \in TelegramJids, cmd \in Commands \cup BotCommands,
        throws \in BOOLEAN :
       \E args \in CommandArgs(cmd) : TelegramCommand(chatJid, cmd, args, throws)
  \/ \E req \in Requests, throws \in BOOLEAN : HostCallback(req, throws)

\* The WhatsApp groups registered, or the Telegram chat
InitCalls ==
  /\ \E groups \in {GroupsWhatsApp, GroupsTelegram} : InitWith(groups)
  /\ maxConcurrent = DEFAULT_MAX_CONCURRENT

SpecCalls == InitCalls /\ [][NextCalls]_vars

----------------------------------------------------------------------------
\* The query loop of a runner and the host writing into its input/

MaxQueries == 3

OtherVarsRunner ==
  << phase, store, lastTimestamp, lastAgentTimestamp, routerState,
     registeredGroups, maxConcurrent, queue, retryTimers, run,
     ipcInput, stack, acc, containers, sessions, disk, lastFrame, lastCall >>

\* main up to its loop: a stale sentinel is removed, the files already in
\* input/ join the initial prompt
RunnerStart(runtime) ==
  /\ sandbox.loop.pc = "off"
  /\ LET files == Unlink(ipc.files, ClosePath)
         pending == drainIpcInput(files)
     IN  /\ sandbox' = [sandbox EXCEPT !.loop =
                          [IdleLoop EXCEPT !.runtime = runtime, !.pc = "query",
                                           !.prompt = <<"prompt">> \o pending,
                                           !.used = Range(pending),
                                           !.piped = sandbox.loop.piped,
                                           !.queries = 1,
                                           !.ipcPolling = (runtime = "gemini")]]
         /\ ipc' = [ipc EXCEPT !.files = Drained(files)]
  /\ UNCHANGED OtherVarsRunner

\* queue.sendMessage: the host puts a follow-up file into input/
HostPipe(name) ==
  /\ sandbox.loop.pc # "exited"
  /\ name \notin sandbox.loop.piped
  /\ \A k \in DOMAIN InputNames :
       (InputNames[k] = name /\ k > 1) => InputNames[k - 1] \in sandbox.loop.piped
  /\ ipc' = [ipc EXCEPT !.files =
               WriteFile(@, InputPath(name), [type |-> "message", text |-> name],
                         TRUE)]
  /\ sandbox' = [sandbox EXCEPT !.loop.piped = @ \cup {name}]
  /\ UNCHANGED OtherVarsRunner

\* queue.closeStdin: the host writes the close sentinel
HostClose ==
  /\ sandbox.loop.pc # "exited"
  /\ ~shouldClose(ipc.files)
  /\ ipc' = [ipc EXCEPT !.files = WriteFile(@, ClosePath, NoData, TRUE)]
  /\ UNCHANGED << sandbox >>
  /\ UNCHANGED OtherVarsRunner

\* pollIpc of the Gemini runner's runQuery, while the query runs
PollIpc ==
  /\ sandbox.loop.runtime = "gemini"
  /\ sandbox.loop.pc = "query"
  /\ sandbox.loop.ipcPolling
  /\ IF shouldClose(ipc.files)
       THEN /\ sandbox' = [sandbox EXCEPT !.loop.closedDuringQuery = TRUE,
                                          !.loop.ipcPolling = FALSE]
            /\ ipc' = [ipc EXCEPT !.files = Unlink(@, ClosePath)]
       ELSE /\ drainIpcInput(ipc.files) # <<>>
            /\ ipc' = [ipc EXCEPT !.files = Drained(@)]
            /\ UNCHANGED sandbox
  /\ UNCHANGED OtherVarsRunner

\* One generate round of the Gemini runner's runQuery: the response holds
\* function calls, which are executed and the loop continues, or text, which
\* ends the loop
GenerateRound(calls) ==
  /\ sandbox.loop.runtime = "gemini"
  /\ sandbox.loop.pc = "query"
  /\ ~roundsEnd(sandbox.loop)
  /\ sandbox' = [sandbox EXCEPT !.loop.round = @ + 1, !.loop.done = ~calls]
  /\ UNCHANGED ipc
  /\ UNCHANGED OtherVarsRunner

\* The query returns, its result is written, and main either leaves the loop
\* or goes on to wait for the next message
QueryEnd ==
  /\ sandbox.loop.pc = "query"
  /\ sandbox.loop.runtime = "gemini" => roundsEnd(sandbox.loop)
  /\ IF closesAfterQuery(sandbox.loop, ipc.files)
       THEN /\ sandbox' = [sandbox EXCEPT !.loop.pc = "exited",
                                          !.loop.ipcPolling = FALSE]
            /\ ipc' = [ipc EXCEPT !.files = Unlink(@, ClosePath)]
       ELSE /\ sandbox' = [sandbox EXCEPT !.loop.pc = "waiting",
                                          !.loop.ipcPolling = FALSE]
            /\ UNCHANGED ipc
  /\ UNCHANGED OtherVarsRunner

\* waitForIpcMessage: the files in input/ become the next prompt; with none
\* left, the sentinel ends the wait
WaitForIpcMessage ==
  /\ sandbox.loop.pc = "waiting"
  /\ LET messages == drainIpcInput(ipc.files)
     IN  IF messages # <<>>
           THEN /\ sandbox.loop.queries < MaxQueries
                /\ sandbox' = [sandbox EXCEPT
                     !.loop.pc = "query", !.loop.prompt = messages,
                     !.loop.used = @ \cup Range(messages),
                     !.loop.queries = @ + 1,
                     !.loop.closedDuringQuery = FALSE,
                     !.loop.ipcPolling = (sandbox.loop.runtime = "gemini"),
                     !.loop.round = 0, !.loop.done = FALSE]
                /\ ipc' = [ipc EXCEPT !.files = Drained(@)]
           ELSE /\ shouldClose(ipc.files)
                /\ sandbox' = [sandbox EXCEPT !.loop.pc = "exited"]
                /\ ipc' = [ipc EXCEPT !.files = Unlink(@, ClosePath)]
  /\ UNCHANGED OtherVarsRunner

NextRunner ==
  \/ \E runtime \in Runtimes : RunnerStart(runtime)
  \/ \E name \in Range(InputNames) : HostPipe(name)
  \/ HostClose
  \/ PollIpc
  \/ \E calls \in BOOLEAN : GenerateRound(calls)
  \/ QueryEnd
  \/ WaitForIpcMessage

SpecRunner == InitIpc /\ [][NextRunner]_vars

\* The runner's process keeps running: its timers fire and its awaited calls
\* return.  The host is under no obligation to write anything.
SpecRunnerFair ==
  /\ InitIpc
  /\ [][NextRunner]_vars
  /\ WF_vars(PollIpc)
  /\ WF_vars(\E calls \in BOOLEAN : GenerateRound(calls))
  /\ WF_vars(QueryEnd)
  /\ WF_vars(WaitForIpcMessage)

----------------------------------------------------------------------------
\* Registration calls, one after another

RegisterGroup(jid, group) ==
  /\ LET st == RegistersGroup([registeredGroups |-> registeredGroups,
                               disk |-> disk], jid, group)
     IN  /\ registeredGroups' = st.registeredGroups
         /\ disk' = st.disk
  /\ lastCall' = [fn |-> "registerGroup", in |-> [jid |-> jid, group |-> group],
                  out |-> <<>>]
  /\ UNCHANGED << phase, store, lastTimestamp, lastAgentTimestamp, routerState,
                  maxConcurrent, queue, retryTimers, run, ipcInput, stack, acc,
                  containers, sessions, lastFrame, ipc, sandbox >>

NextGroups ==
  \E jid \in AllJids, folder \in GroupFolders :
    RegisterGroup(jid, [folder |-> folder, requiresTrigger |-> "undefined"])

SpecGroups == InitCalls /\ [][NextGroups]_vars

----------------------------------------------------------------------------
\* Claims about the cursors

\* The user messages of a chat newer than a cursor value
UserMessagesAfter(j, cursor) ==
  {i \in DOMAIN store : store[i].jid = j /\ ~store[i].bot /\ store[i].ts > cursor}

\* A message batch of jid j ends in this step: runAgent has returned
BatchEnds(j) ==
  run[j].pc = "running" /\ ~run[j].task /\ run'[j].pc = "returned"

\* C1: lastAgentTimestamp[jid] becomes smaller only in the step that ends a
\* sandbox run which ended in error (runAgent returned 'error' or a frame had
\* status 'error') and delivered no final reply; every other step of the
\* loop, the pipe path and processGroupMessages keeps or increases it.
C1_CursorDecreasesOnlyOnFailedRun ==
  [][\A j \in AllJids :
       lastAgentTimestamp'[j] < lastAgentTimestamp[j]
         => /\ BatchEnds(j)
            /\ run'[j].output = "error" \/ run[j].hadError
            /\ ~run[j].outputSentToUser]_vars

\* A failed run without a reply has just ended and the cursor is below the
\* last message of the batch it had advanced to.
C1_Witness ==
  \E j \in AllJids :
    /\ run[j].pc = "returned"
    /\ ~run[j].ret
    /\ run[j].prompt # <<>>
    /\ lastAgentTimestamp[j] < Last(run[j].prompt).time

\* C2: lastTimestamp never decreases, in memory or as persisted, and the
\* step that ends a message batch (with or without the cursor rollback)
\* leaves it unchanged: only lastAgentTimestamp of the batch's jid may change.
C2_SeenCursorMonotone ==
  [][/\ lastTimestamp' >= lastTimestamp
     /\ routerState'.last_timestamp >= routerState.last_timestamp
     /\ \A j \in AllJids :
          BatchEnds(j) =>
            /\ lastTimestamp' = lastTimestamp
            /\ routerState'.last_timestamp = routerState.last_timestamp
            /\ \A k \in AllJids \ {j} :
                 lastAgentTimestamp'[k] = lastAgentTimestamp[k]]_vars

\* A rollback has happened after the loop had advanced lastTimestamp.
C2_Witness ==
  \E j \in AllJids :
    /\ run[j].pc = "returned"
    /\ ~run[j].ret
    /\ lastAgentTimestamp[j] < lastTimestamp
    /\ routerState.last_timestamp = lastTimestamp
    /\ lastTimestamp > 0

\* C3: whenever processGroupMessages has completed a batch successfully for
\* a group, lastAgentTimestamp[jid] <= lastTimestamp, whatever the order of
\* message arrival, polls and queue dispatch.
C3_AgentCursorBelowSeenCursor ==
  \A j \in AllJids :
    ( /\ run[j].pc = "returned"
      /\ ~run[j].task
      /\ run[j].prompt # <<>>
      /\ run[j].output = "success"
      /\ ~run[j].hadError )
      => lastAgentTimestamp[j] <= lastTimestamp

\* A message batch of jid j starts in this step: the cursor was advanced,
\* runAgent is about to be called
BatchStarts(j) ==
  run[j].pc # "running" /\ run'[j].pc = "running" /\ ~run'[j].task

\* C4: previousCursor is the cursor held before the batch was taken; a run
\* that ends in error without a delivered reply sets the cursor back to
\* exactly previousCursor, persists it and returns false; a run that ends in
\* error after a reply was delivered keeps the cursor and returns true;
\* false is returned in no other case.
C4_RollbackIffNoOutput ==
  [][\A j \in AllJids :
       /\ BatchStarts(j) => run'[j].previousCursor = lastAgentTimestamp[j]
       /\ BatchEnds(j) =>
            LET failed == run'[j].output = "error" \/ run[j].hadError
                sent == run[j].outputSentToUser
            IN  /\ (failed /\ ~sent) =>
                     /\ lastAgentTimestamp'[j] = run[j].previousCursor
                     /\ routerState'.last_agent_timestamp[j] = run[j].previousCursor
                     /\ ~run'[j].ret
                /\ (failed /\ sent) =>
                     /\ lastAgentTimestamp'[j] = lastAgentTimestamp[j]
                     /\ routerState'.last_agent_timestamp[j] = lastAgentTimestamp[j]
                     /\ run'[j].ret
                /\ ~run'[j].ret => (failed /\ ~sent)]_vars

\* A run has ended in error after its reply was delivered: true is returned
\* and the cursor stays beyond previousCursor.
C4_Witness ==
  \E j \in AllJids :
    /\ run[j].pc = "returned"
    /\ run[j].output = "error" \/ run[j].hadError
    /\ run[j].outputSentToUser
    /\ run[j].ret
    /\ lastAgentTimestamp[j] > run[j].previousCursor

----------------------------------------------------------------------------
\* Claims about trigger gating and prompts

\* The group is trigger-gated: not the main folder, requiresTrigger not false
Gated(j) ==
  /\ j \in DOMAIN registeredGroups
  /\ registeredGroups[j].folder # MAIN_GROUP_FOLDER
  /\ registeredGroups[j].requiresTrigger # "false"

\* Some message of the set matches the trigger pattern
SomeTrigger(S) == \E i \in S : TRIGGER_PATTERN(Trim(store[i].content))

\* processGroupMessages is on top of the call chain for jid j
InProcessGroupMessages(j) ==
  stack # <<>> /\ Head(stack).k = "processGroupMessages" /\ Head(stack).jid = j

\* The message loop is on top of the call chain, at jid j of its tick
InLoopAt(j) ==
  stack # <<>> /\ Head(stack).k = "tick" /\ Head(Head(stack).todo) = j

\* A follow-up batch is written to the input/ of jid j in this step
Piped(j) == Len(ipcInput'[j]) > Len(ipcInput[j])

\* A message-check is enqueued for jid j in this step: it starts at once
\* or is left pending
MessageCheckEnqueued(j) ==
  \/ ~queue.groups[j].pendingMessages /\ queue'.groups[j].pendingMessages
  \/ /\ ~queue.groups[j].active
     /\ ~InSeq(j, queue.waitingGroups)
     /\ queue'.groups[j].active
     /\ stack' # <<>>
     /\ Head(stack') = PgmFrame(j)

\* C5, as the code has it: for a trigger-gated group no sandbox is spawned
\* unless a message after lastAgentTimestamp[jid] matches the trigger, and
\* processGroupMessages on a batch without one leaves the cursor unchanged;
\* the poll loop pipes and enqueues nothing, and leaves the cursor, unless
\* one of the messages it has just polled for the group matches.
C5_NoSpawnWithoutTrigger ==
  [][\A j \in AllJids : Gated(j) =>
       LET pending == UserMessagesAfter(j, lastAgentTimestamp[j])
       IN  /\ BatchStarts(j) => SomeTrigger(pending)
           /\ (InProcessGroupMessages(j) /\ ~SomeTrigger(pending)) =>
                /\ lastAgentTimestamp'[j] = lastAgentTimestamp[j]
                /\ containers'[j] = containers[j]
                /\ run'[j].pc = "returned" /\ run'[j].ret
           /\ (InLoopAt(j) /\ ~SomeTrigger(UserMessagesAfter(j, Head(stack).since))) =>
                /\ ~Piped(j)
                /\ ~MessageCheckEnqueued(j)
                /\ queue' = queue
                /\ lastAgentTimestamp'[j] = lastAgentTimestamp[j]]_vars

\* processGroupMessages has returned for a trigger-gated group without
\* spawning: messages are pending after the cursor, none is a trigger.
C5_Witness ==
  \E j \in AllJids :
    /\ Gated(j)
    /\ run[j].pc = "returned"
    /\ run[j].prompt = <<>>
    /\ containers[j] = 0
    /\ UserMessagesAfter(j, lastAgentTimestamp[j]) # {}
    /\ ~SomeTrigger(UserMessagesAfter(j, lastAgentTimestamp[j]))

\* C5 as stated: for a trigger-gated group, on every path, nothing is piped
\* or enqueued and no sandbox is spawned unless a message after
\* lastAgentTimestamp[jid] matches the trigger.
C5_NothingEnqueuedWithoutTrigger ==
  [][\A j \in AllJids :
       (Gated(j) /\ ~SomeTrigger(UserMessagesAfter(j, lastAgentTimestamp[j])))
         => /\ ~BatchStarts(j)
            /\ ~Piped(j)
            /\ ~MessageCheckEnqueued(j)]_vars

\* The prompt line formatMessages writes for stored message i
PromptLine(i) == [time |-> store[i].ts, content |-> escapeXml(store[i].content)]

\* Every message of S has a line of its own in the prompt p, and the lines
\* of p are in timestamp order.
ContainsInOrder(p, S) ==
  /\ \E f \in [S -> DOMAIN p] :
       /\ \A a, b \in S : a # b => f[a] # f[b]
       /\ \A i \in S : p[f[i]] = PromptLine(i)
  /\ \A k, l \in DOMAIN p : k < l => p[k].time <= p[l].time

\* C6: the prompt of a new sandbox and every follow-up batch piped to a
\* running one contain each stored non-assistant message of the chat newer
\* than lastAgentTimestamp[jid], in timestamp order; for a trigger-gated
\* group this includes the messages that came before the trigger.
C6_PromptHasAllPending ==
  [][\A j \in AllJids :
       LET pending == UserMessagesAfter(j, lastAgentTimestamp[j])
       IN  /\ BatchStarts(j) =>
                /\ ContainsInOrder(run'[j].prompt, pending)
                /\ Len(run'[j].prompt) = Cardinality(pending)
           /\ Piped(j) => ContainsInOrder(Last(ipcInput'[j]), pending)]_vars

\* A sandbox of a trigger-gated group runs on a prompt whose first message
\* is no trigger and whose second is one.
C6_Witness ==
  \E j \in AllJids :
    /\ Gated(j)
    /\ run[j].pc = "running"
    /\ ~run[j].task
    /\ Len(run[j].prompt) = 2
    /\ ~TRIGGER_PATTERN(Trim(run[j].prompt[1].content))
    /\ TRIGGER_PATTERN(Trim(run[j].prompt[2].content))
    /\ run[j].prompt[1].time < run[j].prompt[2].time

\* The group's batch passes the trigger gate of the message loop
PassesLoopGate(j) ==
  ~Gated(j) \/ SomeTrigger(UserMessagesAfter(j, Head(stack).since))

\* How often jid j stands in the queue's waiting list
TimesWaiting(q, j) == Cardinality({k \in DOMAIN q.waitingGroups : q.waitingGroups[k] = j})

\* C7: in a tick of the message loop, for a group batch that passes the
\* trigger gate: if a sandbox is active for the group (queue.sendMessage
\* returns true) the batch is piped, the queue is left as it is and
\* lastAgentTimestamp[jid] becomes the timestamp of the last piped message;
\* otherwise nothing is piped, the cursor is unchanged and the group has
\* exactly one message-check: it starts now, or it is pending and stands
\* once in the waiting list.
C7_PipeOrEnqueue ==
  [][\A j \in AllJids :
       (InLoopAt(j) /\ PassesLoopGate(j)) =>
         IF queue.groups[j].active
           THEN /\ Piped(j)
                /\ Len(ipcInput'[j]) = Len(ipcInput[j]) + 1
                /\ queue' = queue
                /\ ~MessageCheckEnqueued(j)
                /\ lastAgentTimestamp'[j] = Last(Last(ipcInput'[j])).time
                /\ routerState'.last_agent_timestamp[j] = lastAgentTimestamp'[j]
           ELSE /\ ~Piped(j)
                /\ lastAgentTimestamp'[j] = lastAgentTimestamp[j]
                /\ \/ /\ queue'.groups[j].active
                      /\ queue'.activeCount = queue.activeCount + 1
                      /\ queue'.waitingGroups = queue.waitingGroups
                      /\ Head(stack') = PgmFrame(j)
                   \/ /\ ~queue'.groups[j].active
                      /\ queue'.groups[j].pendingMessages
                      /\ queue'.activeCount = queue.activeCount
                      /\ TimesWaiting(queue', j) = 1]_vars

\* Two messages with different timestamps were piped to an active sandbox
\* and the cursor is at the second.
C7_Witness ==
  \E j \in AllJids :
    /\ queue.groups[j].active
    /\ ipcInput[j] # <<>>
    /\ Len(Last(ipcInput[j])) = 2
    /\ Last(ipcInput[j])[1].time < Last(ipcInput[j])[2].time
    /\ lastAgentTimestamp[j] = Last(ipcInput[j])[2].time

----------------------------------------------------------------------------
\* Claims about the delivery of frames

\* The frame's result is non-null and non-empty after the internal blocks
\* are stripped
HasReply(f) == f.result # NULL /\ stripInternalTags(f.result) # <<>>

----------------------------------------------------------------------------
\* Claims about the queue

\* The jids with a sandbox process alive
LiveSandboxes == {j \in AllJids : containers[j] > 0}

\* C9: for every jid at most one sandbox is alive at any instant, and it is
\* alive only while the queue holds the group active; batches and tasks
\* that arrive meanwhile are piped or left pending.
C9_OneSandboxPerJid ==
  \A j \in AllJids :
    /\ containers[j] <= 1
    /\ containers[j] = 1 => queue.groups[j].active
    /\ containers[j] = 1 <=> run[j].pc = "running"

\* A sandbox is alive for a group while a message-check and a task for the
\* same group are left pending.
C9_Witness ==
  \E j \in AllJids :
    /\ containers[j] = 1
    /\ queue.groups[j].pendingMessages
    /\ queue.groups[j].pendingTasks > 0

\* C10: the cap is at least 1 and neither the sandboxes alive nor the
\* queue's active count exceed it; while no call chain is running, a group
\* waits only if the cap is used up.
C10_ActiveWithinCap ==
  /\ maxConcurrent >= 1
  /\ Cardinality(LiveSandboxes) <= maxConcurrent
  /\ queue.activeCount <= maxConcurrent
  /\ queue.activeCount = Cardinality({j \in AllJids : queue.groups[j].active})
  /\ (Quiescent /\ queue.waitingGroups # <<>>) => queue.activeCount = maxConcurrent

\* The cap is used up by a live sandbox and another group waits.
C10_Witness ==
  /\ Cardinality(LiveSandboxes) = maxConcurrent
  /\ queue.waitingGroups # <<>>
  /\ \E j \in AllJids : InSeq(j, queue.waitingGroups) /\ ~queue.groups[j].active

----------------------------------------------------------------------------
\* Claims about startup recovery

\* recoverPendingMessages is on top of the call chain, at jid j of its loop
InRecoveryAt(j) ==
  /\ stack # <<>>
  /\ Head(stack).k = "recoverPendingMessages"
  /\ Head(stack).todo # <<>>
  /\ Head(Head(stack).todo) = j

\* The group has a message-check: its slot is taken for one or one is pending
HasMessageCheck(q, j) == q.groups[j].active \/ q.groups[j].pendingMessages

\* C11: main() runs recoverPendingMessages over every registered group
\* before the first iteration of the message loop; its step for a group
\* with a stored message after lastAgentTimestamp[jid] enqueues a
\* message-check (it starts at once, or is pending with the group in the
\* waiting list), also when lastTimestamp is already past that message; its
\* step for a group without one leaves the queue alone; when the loop
\* starts, every registered group with such a message has a message-check.
C11_RecoveryEnqueuesPending ==
  [][/\ (phase = "boot" /\ phase' = "up") =>
          /\ Head(stack').k = "recoverPendingMessages"
          /\ Range(Head(stack').todo) = DOMAIN registeredGroups
          /\ Len(stack') = 2
          /\ stack'[2].k = "startMessageLoop"
     /\ \A j \in AllJids :
          InRecoveryAt(j) =>
            IF UserMessagesAfter(j, lastAgentTimestamp[j]) # {}
              THEN /\ HasMessageCheck(queue', j)
                   /\ \/ /\ queue'.groups[j].active
                         /\ ~queue.groups[j].active
                         /\ Head(stack') = PgmFrame(j)
                      \/ /\ queue'.groups[j].pendingMessages
                         /\ TimesWaiting(queue', j) = 1
              ELSE /\ queue' = queue
                   /\ stack' = <<[Head(stack) EXCEPT !.todo = Tail(@)]>> \o Tail(stack)
     /\ (stack # <<>> /\ Head(stack).k = "startMessageLoop") =>
          \A j \in DOMAIN registeredGroups :
            UserMessagesAfter(j, lastAgentTimestamp[j]) # {}
              => HasMessageCheck(queue, j)]_vars

\* Recovery has started a sandbox for messages the loop had already seen
\* before the restart: the loop is about to start, the batch lies at or
\* below lastTimestamp.
C11_Witness ==
  /\ stack # <<>>
  /\ Head(stack).k = "startMessageLoop"
  /\ \E j \in AllJids :
       /\ run[j].pc = "running"
       /\ ~run[j].task
       /\ run[j].prompt # <<>>
       /\ Last(run[j].prompt).time <= lastTimestamp
       /\ run[j].previousCursor < Head(run[j].prompt).time

----------------------------------------------------------------------------
\* Claims about the idle timer

\* The idle timer of jid j's invocation expires in this step
IdleTimerExpires(j) ==
  run[j].pc = "running" /\ run[j].idleTimer /\ ~run'[j].idleTimer
  /\ run'[j].pc = "running"

\* C12: the callback of a frame arms or resets the idle timer only if the
\* frame carries a stream event or a non-null result; the callback of a
\* frame with a null result and no event leaves the timer as it was; the
\* timer becomes armed in no other step.  When it expires, closeStdin is
\* called for the jid and the sandbox stays alive and running.
C12_IdleTimerOnlyOnMeaningfulFrames ==
  [][/\ lastFrame'.timerReset =>
          \/ lastFrame'.frame.event # "none"
          \/ lastFrame'.frame.result # NULL
     /\ \A j \in AllJids :
          /\ (lastFrame'.jid = j /\ lastFrame'.frame.result = NULL
                                /\ lastFrame'.frame.event = "none") =>
               /\ ~lastFrame'.timerReset
               /\ run'[j].idleTimer = run[j].idleTimer
          /\ (run'[j].idleTimer /\ ~run[j].idleTimer) =>
               /\ lastFrame'.jid = j
               /\ lastFrame'.timerReset
               /\ run[j].pc = "running"
          /\ IdleTimerExpires(j) =>
               /\ run'[j].stdinClosed
               /\ containers'[j] = containers[j]
               /\ containers'[j] = 1
               /\ queue' = queue
          /\ (run'[j].stdinClosed /\ ~run[j].stdinClosed) => IdleTimerExpires(j)]_vars

\* The timer armed by a tool event has expired: the close sentinel is
\* written, the sandbox is alive; a keepalive frame has since left the
\* timer unarmed.
C12_Witness ==
  \E j \in AllJids :
    /\ run[j].pc = "running"
    /\ run[j].stdinClosed
    /\ ~run[j].idleTimer
    /\ ~run[j].outputSentToUser
    /\ acc[j].toolLines # <<>>
    /\ containers[j] = 1
    /\ lastFrame.jid = j
    /\ lastFrame.frame.result = NULL
    /\ lastFrame.frame.event = "none"

----------------------------------------------------------------------------
\* Claims about sessions

\* The folder has no session entry, in memory or in the sessions table
SessionAbsent(ss, folder) == ss.mem[folder] = "" /\ ss.db[folder] = ""

\* /reset is handled for jid j in this step while its sandbox is active
ResetWhileActive(j) ==
  run[j].pc = "running" /\ ~run[j].killed /\ run'[j].killed

\* C13: the step that handles /reset for a chat with an active sandbox
\* leaves no session entry for the group's folder, in memory or in the
\* table, and no step taken while the sandbox that was running at that
\* moment is still running (its frames, its final output) creates one.
C13_SessionStaysCleared ==
  [][\A j \in DOMAIN registeredGroups :
       /\ ResetWhileActive(j) =>
            SessionAbsent(sessions', registeredGroups[j].folder)
       /\ (run[j].pc = "running" /\ run[j].killed) =>
            SessionAbsent(sessions', registeredGroups[j].folder)]_vars

----------------------------------------------------------------------------
\* Claims about failed runs

\* A message batch of jid j has ended in an agent-side error
EndedWithError(j) ==
  /\ run[j].pc = "returned"
  /\ ~run[j].task
  /\ run[j].prompt # <<>>
  /\ EndedInError(run[j].output, run[j].hadError)

\* C14: when a sandbox run has ended in an agent-side error, at least one
\* message went to the user's chat: a reply delivered during the run, or a
\* message sent by the step that ends the run.
C14_ErrorRunRepliesToUser ==
  \A j \in AllJids :
    EndedWithError(j) =>
      \/ run[j].outputSentToUser
      \/ lastFrame.sends + lastFrame.edits > 0

----------------------------------------------------------------------------
\* Claims about the stream accumulator

\* The flushes of jid j that are inside their channel call
RunningFlushes(j) ==
  {k \in DOMAIN acc[j].jobs : acc[j].jobs[k].status = "running"}

\* finalize of jid j is inside its final channel call
InFinalWrite(j) == acc[j].fin.phase \in {"editing", "sending"}

\* C15: the channel writes of an accumulator run one at a time, in the order
\* in which their flushes were chained: at most one flush is inside its
\* channel call, a flush has started only if every flush chained before it
\* has completed, and finalize is inside its final edit or send only when
\* every flush chained before finalize was called has completed.
C15_FlushesInOrder ==
  \A j \in DOMAIN registeredGroups :
    /\ Cardinality(RunningFlushes(j)) <= 1
    /\ \A k, l \in DOMAIN acc[j].jobs :
         (k < l /\ acc[j].jobs[l].status # "queued") =>
           acc[j].jobs[k].status = "done"
    /\ InFinalWrite(j) =>
         /\ RunningFlushes(j) = {}
         /\ \A k \in 1..acc[j].fin.awaits : acc[j].jobs[k].status = "done"

\* finalize is inside its final write after waiting for two flushes, each of
\* which made a channel call
C15_Witness ==
  \E j \in DOMAIN registeredGroups :
    /\ InFinalWrite(j)
    /\ acc[j].fin.awaits >= 2
    /\ \A k \in 1..2 : acc[j].jobs[k].call # "none"

\* Flush k of jid j enters its channel call in this step
FlushCalls(j, k) ==
  /\ k \in DOMAIN acc[j].jobs
  /\ acc[j].jobs[k].status = "queued"
  /\ acc'[j].jobs[k].status = "running"

\* finalize of jid j enters a channel call in this step: editMessage, or
\* the plain sendMessage
FinalCalls(j, call) ==
  /\ acc[j].fin.phase # call
  /\ acc'[j].fin.phase = call

\* What the flushes do with the message id: sendMessageWithId is called only
\* while no id is captured, a captured id never changes, a flush made with a
\* captured id is an editMessage on that id, and editMessage is never called
\* without an id
FlushesKeepMessageId(j) ==
  /\ acc[j].messageId # 0 => acc'[j].messageId = acc[j].messageId
  /\ \A k \in 1..MaxFlushes :
       FlushCalls(j, k) =>
         /\ acc'[j].jobs[k].call = "send" <=> acc[j].messageId = 0
         /\ acc'[j].jobs[k].call = "edit" <=> acc[j].messageId # 0
         /\ acc'[j].jobs[k].id = acc[j].messageId
  /\ FinalCalls(j, "editing") =>
       /\ acc[j].messageId # 0
       /\ acc'[j].fin.id = acc[j].messageId

\* C16 as stated: sendMessageWithId only while no id is captured, the id
\* never changes once captured, every later flush and the final write are
\* an editMessage on that id, and no editMessage is made without an id.
C16_FinalWriteAlwaysEdits ==
  [][\A j \in DOMAIN registeredGroups :
       /\ FlushesKeepMessageId(j)
       /\ ~(acc[j].messageId # 0 /\ acc[j].fin.phase = "waiting"
               /\ FinalCalls(j, "sending"))]_vars

\* C16, amended: sendMessageWithId only while no id is captured, the id
\* never changes once captured, every later flush is an editMessage on that
\* id, no editMessage is made without an id, and the final write is an
\* editMessage on that id when the tool log plus the clean text fit in one
\* message and that edit succeeds; otherwise it is a plain sendMessage,
\* which captures no id.
C16_WritesKeepMessageId ==
  [][\A j \in DOMAIN registeredGroups :
       /\ FlushesKeepMessageId(j)
       /\ (acc[j].messageId # 0 /\ acc[j].fin.phase = "waiting"
             /\ FinalCalls(j, "sending")) =>
            ~FinalEdits(acc[j], acc[j].fin.cleanText)
       /\ (acc[j].messageId # 0 /\ acc[j].fin.phase = "editing"
             /\ FinalCalls(j, "sending")) =>
            acc[j].fin.id = acc[j].messageId
       /\ FinalCalls(j, "sending") => acc'[j].messageId = acc[j].messageId]_vars

\* The first flush created the message, the second flush edited it, and
\* finalize is editing the same message
C16_Witness ==
  \E j \in DOMAIN registeredGroups :
    /\ Len(acc[j].jobs) >= 2
    /\ acc[j].jobs[1].call = "send"
    /\ acc[j].jobs[2].call = "edit"
    /\ acc[j].jobs[2].id = acc[j].messageId
    /\ acc[j].fin.phase = "editing"
    /\ acc[j].fin.id = acc[j].messageId

\* addToolStart or addTextDelta is called on the accumulator of jid j in
\* this step
AddCalled(j) ==
  \/ acc'[j].toolStarts = acc[j].toolStarts + 1
  \/ Len(acc'[j].textParts) = Len(acc[j].textParts) + 1

\* C17: an accumulator has at most one flush timer pending; an
\* addToolStart or addTextDelta made while a timer is pending schedules no
\* timer and no flush, one made while none is pending schedules one; a
\* flush is chained only by the expiry of the pending timer, one flush per
\* expiry, and a flush makes at most one channel call.
C17_OneFlushPerInterval ==
  [][\A j \in DOMAIN registeredGroups :
       /\ acc[j].flushTimer <= 1
       /\ acc'[j].flushTimer <= 1
       /\ AddCalled(j) =>
            /\ acc'[j].flushTimer = 1
            /\ acc'[j].jobs = acc[j].jobs
       /\ acc'[j].flushTimer > acc[j].flushTimer => AddCalled(j)
       /\ Len(acc'[j].jobs) # Len(acc[j].jobs) =>
            /\ Len(acc'[j].jobs) = Len(acc[j].jobs) + 1
            /\ acc[j].flushTimer = 1
            /\ acc'[j].flushTimer = 0
            /\ Last(acc'[j].jobs) = NewJob
       /\ \A k \in DOMAIN acc[j].jobs :
            acc[j].jobs[k].call # "none" =>
              acc'[j].jobs[k].call = acc[j].jobs[k].call]_vars

\* A burst of three tool starts and a text delta has left one timer pending
\* and no flush chained
C17_Witness ==
  \E j \in DOMAIN registeredGroups :
    /\ acc[j].toolStarts >= 3
    /\ Len(acc[j].textParts) >= 1
    /\ acc[j].flushTimer = 1
    /\ acc[j].jobs = <<>>

\* The tool lines after n calls of addToolStart, the i-th with summary
\* SummaryOf(i)
ExpectedToolLines(n) ==
  [i \in 1..(IF n < MAX_TOOL_LINES THEN n ELSE MAX_TOOL_LINES) |->
     ToolLine(SummaryOf(i))]
    \o (IF n > MAX_TOOL_LINES THEN <<MoreTools>> ELSE <<>>)

\* C18: after n calls of addToolStart, toolLines holds the lines of the
\* first min(n, 20) calls in arrival order, followed by exactly one
\* "... (more tools)" marker iff n > 20; it never has more than 21 entries.
C18_ToolLinesCapped ==
  \A j \in DOMAIN registeredGroups :
    /\ acc[j].toolLines = ExpectedToolLines(acc[j].toolStarts)
    /\ Len(acc[j].toolLines) <= MAX_TOOL_LINES + 1

\* Twenty-two tool starts: twenty lines, the marker, and one start dropped
C18_Witness ==
  \E j \in DOMAIN registeredGroups :
    /\ acc[j].toolStarts = MAX_TOOL_LINES + 2
    /\ Len(acc[j].toolLines) = MAX_TOOL_LINES + 1
    /\ acc[j].toolLines[MAX_TOOL_LINES + 1] = MoreTools

\* The tool log of jid j followed by the clean text that finalize holds
ToolLogAndText(j) ==
  IF acc[j].toolLines = <<>> THEN acc[j].fin.cleanText
  ELSE JoinLines(acc[j].toolLines) \o <<"\n", "\n">> \o acc[j].fin.cleanText

\* C19: finalize with a non-empty clean text edits the streamed message
\* exactly when a message id exists and the tool log plus the clean text is
\* at most 4096 characters, and the edit carries both; when the content is
\* longer, when no streamed message exists, or when the edit has reported
\* failure, it calls the plain sendMessage with the clean text alone; after
\* an edit that succeeded it sends nothing.
C19_FinalizeEditsOrFallsBack ==
  [][\A j \in DOMAIN registeredGroups :
       /\ acc'[j].fin.phase # "none" => acc'[j].fin.cleanText # <<>>
       /\ (acc[j].fin.phase = "waiting" /\ FinalCalls(j, "editing")) =>
            /\ acc[j].messageId # 0
            /\ TextLength(ToolLogAndText(j)) <= MAX_MESSAGE_LENGTH
            /\ acc'[j].fin.content = ToolLogAndText(j)
            /\ acc'[j].fin.id = acc[j].messageId
       /\ (acc[j].fin.phase = "waiting" /\ FinalCalls(j, "sending")) =>
            /\ \/ acc[j].messageId = 0
               \/ TextLength(ToolLogAndText(j)) > MAX_MESSAGE_LENGTH
            /\ acc'[j].fin.content = acc[j].fin.cleanText
       /\ (acc[j].fin.phase = "waiting" /\ acc'[j].fin.phase # "waiting") =>
            acc'[j].fin.phase \in {"editing", "sending"}
       /\ (acc[j].fin.phase = "editing" /\ acc'[j].fin.phase # "editing") =>
            \/ acc'[j].fin.phase = "none"
            \/ /\ acc'[j].fin.phase = "sending"
               /\ acc'[j].fin.content = acc[j].fin.cleanText
       /\ (acc[j].fin.phase = "sending" /\ acc'[j].fin.phase # "sending") =>
            acc'[j].fin.phase = "none"]_vars

\* A streamed message exists and the clean text alone fills a message:
\* with the tool log it is too long, and finalize is sending the clean
\* text alone
C19_Witness ==
  \E j \in DOMAIN registeredGroups :
    /\ acc[j].fin.phase = "sending"
    /\ acc[j].messageId # 0
    /\ acc[j].toolLines # <<>>
    /\ TextLength(acc[j].fin.cleanText) <= MAX_MESSAGE_LENGTH
    /\ TextLength(ToolLogAndText(j)) > MAX_MESSAGE_LENGTH
    /\ acc[j].fin.content = acc[j].fin.cleanText

\* The characters of s hold an <internal> tag followed, later, by an
\* </internal> tag: a complete block
HasCompleteBlock(s) ==
  LET t == Lex(s)
  IN  \E k, l \in DOMAIN t :
        k < l /\ t[k] = "<internal>" /\ t[l] = "</internal>"

\* C20: whatever the raw result, the text that finalize hands to the
\* channel (the output of stripInternalTags, alone or after the tool log)
\* holds no complete <internal>...</internal> block.
C20_NoInternalBlockDelivered ==
  \A j \in DOMAIN registeredGroups :
    InFinalWrite(j) =>
      /\ ~HasCompleteBlock(acc[j].fin.cleanText)
      /\ ~HasCompleteBlock(acc[j].fin.content)

----------------------------------------------------------------------------
\* Claims about the IPC files

\* C21: a file of messages/, tasks/ or queries/ has its final *.json name
\* only as the result of a rename of a *.json.tmp file that held the whole
\* text; so every file with a final name is whole, and what the host has
\* read under a final name was whole JSON and no *.tmp file, whatever the
\* interleaving of the writer's and the host's steps.
C21_FinalNamesByRename ==
  [][LET finals == {FilePath(d, n) : d \in {"messages", "tasks", "queries"},
                                     n \in FileNames \cup Uuids}
     IN  /\ \A p \in finals \cap DOMAIN ipc'.files : ipc'.files[p].whole
         /\ ipc'.read # <<>> =>
              /\ ipc'.read.whole
              /\ ipc'.read.path.ext = ".json"
         /\ \A p \in finals \cap DOMAIN ipc'.files :
              (p \notin DOMAIN ipc.files \/ ipc.files[p] # ipc'.files[p]) =>
                /\ [p EXCEPT !.ext = ".json.tmp"] \in DOMAIN ipc.files
                /\ ipc.files[[p EXCEPT !.ext = ".json.tmp"]].whole
                /\ ipc'.files[p] = ipc.files[[p EXCEPT !.ext = ".json.tmp"]]
                /\ [p EXCEPT !.ext = ".json.tmp"] \notin DOMAIN ipc'.files]_vars

\* The host has read a file while the next one, of the same name, is
\* half-written under its *.tmp name next to a final file
C21_Witness ==
  /\ ipc.read # <<>>
  /\ \E p \in DOMAIN ipc.files :
       /\ p.ext = ".json"
       /\ [p EXCEPT !.ext = ".json.tmp"] \in DOMAIN ipc.files
       /\ ~ipc.files[[p EXCEPT !.ext = ".json.tmp"]].whole

\* C22: in a sandbox whose context is not the main group's, register_group
\* is not among the declared tools, registerGroup returns its refusal for
\* every argument, a register_group call through executeTool returns the
\* refusal and starts no write, and no register_group file is in the IPC
\* directory or has been read by the host.
C22_RegisterGroupOnlyFromMain ==
  (sandbox.ctx # NoCtx /\ ~sandbox.ctx.isMain) =>
    /\ "register_group" \notin getToolDeclarations(sandbox.ctx.isMain)
    /\ \A args \in ToolArgs("register_group") :
         /\ registerGroup(sandbox.ctx, args).data = NoData
         /\ registerGroup(sandbox.ctx, args).result =
              "Only the main group can register new groups."
    /\ sandbox.tool.name = "register_group" =>
         /\ sandbox.tool.out.result = "Only the main group can register new groups."
         /\ sandbox.tool.path = <<>>
    /\ \A p \in DOMAIN ipc.files : ipc.files[p].data.type # "register_group"
    /\ ipc.read # <<>> => ipc.read.data.type # "register_group"

\* A sandbox of another group has called register_group after a tool call
\* that did write to tasks/
C22_Witness ==
  /\ sandbox.ctx # NoCtx
  /\ ~sandbox.ctx.isMain
  /\ sandbox.tool.name = "register_group"
  /\ sandbox.writer.pc = "idle"
  /\ \E p \in DOMAIN ipc.files : p.dir = "tasks" /\ p.ext = ".json"

\* C23: in a sandbox whose context is not the main group's, every message
\* file carries the context's own chatJid and every schedule_task file the
\* context's own chatJid as targetJid, whatever target_group_jid the call
\* was given; this holds for the files in the directory, whole or not, and
\* for the file the host has read.  A targetJid that differs from the
\* sandbox's chatJid therefore comes from a main context.
C23_NonMainTargetsItself ==
  LET seen == {ipc.files[p].data : p \in DOMAIN ipc.files}
                \cup (IF ipc.read # <<>> THEN {ipc.read.data} ELSE {})
  IN  \A data \in seen :
        /\ data.type = "message" => data.chatJid = sandbox.ctx.chatJid
        /\ (data.type = "schedule_task" /\ ~sandbox.ctx.isMain) =>
             data.targetJid = sandbox.ctx.chatJid
        /\ (data.type = "schedule_task"
              /\ data.targetJid # sandbox.ctx.chatJid) => sandbox.ctx.isMain

\* A sandbox of another group has called schedule_task with the jid of a
\* foreign chat as target_group_jid, and the file is in tasks/
C23_Witness ==
  /\ ~sandbox.ctx.isMain
  /\ sandbox.tool.name = "schedule_task"
  /\ sandbox.tool.args.targetGroupJid = "other@g.us"
  /\ sandbox.tool.path \in DOMAIN ipc.files
  /\ ipc.files[sandbox.tool.path].data.targetJid = sandbox.ctx.chatJid

\* C24: with two queryKernel calls in flight, the call that finds a
\* response returns what responses/{its own uuid}.json holds: status
\* 'error' as "Error: " followed by the result (or 'Unknown error'),
\* anything else as the result; it removes that file and leaves the
\* response of the other query in place.
C24_QueryReadsOwnResponse ==
  [][\A u \in Uuids :
       (sandbox.queries[u].pc = "polling" /\ sandbox'.queries[u].pc = "done"
          /\ sandbox'.queries[u].read # NoData) =>
         LET own == FilePath("responses", u)
         IN  /\ own \in DOMAIN ipc.files
             /\ sandbox'.queries[u].read = ipc.files[own].data
             /\ ipc.files[own].data.uuid = u
             /\ sandbox'.queries[u].result =
                  (IF ipc.files[own].data.status = "error"
                     THEN <<"Error: ",
                            IF ipc.files[own].data.result # ""
                              THEN ipc.files[own].data.result
                              ELSE "Unknown error">>
                   ELSE IF ipc.files[own].data.result # ""
                     THEN <<ipc.files[own].data.result>>
                   ELSE <<>>)
             /\ own \notin DOMAIN ipc'.files
             /\ \A p \in DOMAIN ipc.files \ {own} :
                  p \in DOMAIN ipc'.files /\ ipc'.files[p] = ipc.files[p]]_vars

\* The first query has returned its own error response while the response
\* of the second query was waiting in responses/
C24_Witness ==
  /\ sandbox.queries["u1"].pc = "done"
  /\ sandbox.queries["u1"].read # NoData
  /\ sandbox.queries["u1"].result = <<"Error: ", "u1">>
  /\ sandbox.queries["u2"].pc = "polling"
  /\ FilePath("responses", "u2") \in DOMAIN ipc.files

----------------------------------------------------------------------------
\* Claims about the query handlers

\* C25: handleQuery returns a status of ok or error for every type and
\* params; an unknown type gives an error that says 'Unknown query type';
\* and when the CLI a handler needs is unavailable, or its call fails or
\* times out, the result is an error with the standalone-mode message,
\* and the CLI's output is not returned as ok.
C25_DegradesToStandaloneMessage ==
  lastCall.fn = "handleQuery" =>
    /\ lastCall.out.status \in {"ok", "error"}
    /\ lastCall.in.type \notin ReadTypes =>
         /\ lastCall.out.status = "error"
         /\ lastCall.out.result[1] = "Unknown query type"
    /\ (lastCall.in.type \in ReadTypes \ {"review_summary"}
          /\ \/ ~lastCall.in.env.which[IF lastCall.in.type
                                            \in {"search_beads", "next_work"}
                                          THEN "bd" ELSE "ic"]
             \/ lastCall.out.cli # <<>> /\ lastCall.in.env.exec # "ok") =>
         /\ lastCall.out.status = "error"
         /\ lastCall.out.result = <<STANDALONE_MSG>>

\* C26: a query of a write type sent by a group that is not the main group
\* is answered with status error and no CLI is run for it; a CLI is run
\* for a write type only if the sender is the main group.
C26_WritesOnlyFromMain ==
  (lastCall.fn = "handleQuery" /\ lastCall.in.type \in WriteTypes) =>
    /\ ~lastCall.in.isMain =>
         /\ lastCall.out.status = "error"
         /\ lastCall.out.cli = <<>>
    /\ lastCall.out.cli # <<>> => lastCall.in.isMain

\* create_issue from the sandbox of another group, with bd on the host
C26_Witness ==
  /\ lastCall.fn = "handleQuery"
  /\ lastCall.in.type = "create_issue"
  /\ ~lastCall.in.isMain
  /\ lastCall.in.env.which["bd"]
  /\ lastCall.in.env.exec = "ok"
  /\ lastCall.out.status = "error"

----------------------------------------------------------------------------
\* Claims about the wire protocol

\* C27: the frames the host parses from a run's standard output are the
\* objects the runner wrote with writeOutput, as many and in the same order,
\* whatever lines that are no frames come before, between and after them.
C27_FramesRoundTrip ==
  lastCall.fn = "writeOutput" => lastCall.out = lastCall.in.outputs

\* Two frames were written with noise before, between and after them, the
\* noise holding a JSON line of its own, and both were parsed.
C27_Witness ==
  /\ lastCall.fn = "writeOutput"
  /\ Len(lastCall.in.outputs) = MaxFrames
  /\ \A k \in 1..(MaxFrames + 1) : Len(lastCall.in.noise[k]) = 2
  /\ lastCall.in.outputs[1] # lastCall.in.outputs[2]
  /\ lastCall.in.outputs[1].result = NULL
  /\ Len(lastCall.out) = MaxFrames

----------------------------------------------------------------------------
\* Claims about the runner's input loop

\* C28: the runner leaves its query loop only with input/ drained: in the
\* step in which it exits, no follow-up file is left in input/, and every
\* follow-up file the host has written has been used as a prompt.
C28_ExitsAfterDraining ==
  [][(sandbox.loop.pc # "exited" /\ sandbox'.loop.pc = "exited")
       => /\ drainIpcInput(ipc.files) = <<>>
          /\ sandbox.loop.piped \subseteq sandbox.loop.used]_vars

----------------------------------------------------------------------------
\* Claims about the commands

\* C29: /model <arg> switches to the model of the first rule that matches:
\* the catalog entry whose id is the argument; else, for an argument that is
\* a number from 1 to the catalog's length, the entry at that position; else
\* an entry whose id or display name contains the argument; else the
\* argument itself as the id, with the runtime its prefix gives.
C29_FirstMatchingRule ==
  lastCall.fn = "handleModel" =>
    LET args == lastCall.in.args
        lower == toLowerCase(args)
        exact == {m \in Range(MODEL_CATALOG) : m.id = lower}
        isIndex == /\ args # <<>>
                   /\ LeadingDigits(args) = args
                   /\ DigitsValue(args) \in DOMAIN MODEL_CATALOG
        bySubstring == {m \in Range(MODEL_CATALOG) :
                          includes(m.id, lower)
                            \/ includes(toLowerCase(m.displayName), lower)}
    IN  IF exact # {} THEN lastCall.out \in exact
        ELSE IF isIndex THEN lastCall.out = MODEL_CATALOG[DigitsValue(args)]
        ELSE IF bySubstring # {} THEN lastCall.out \in bySubstring
        ELSE /\ lastCall.out.id = args
             /\ lastCall.out.runtime = runtimeForModel(args)

\* C30: every command yields a reply.  handleCommand returns a text that is
\* not empty for every chat, command and arguments; for a command it does not
\* know the text is 'Unknown command', for a chat that is not registered the
\* commands that need the group answer 'This chat is not registered.', and
\* in both cases nothing is done to any group; the Telegram bot sends a reply
\* for every command it receives, also when the handler throws.
C30_EveryCommandReplies ==
  /\ lastCall.fn = "handleCommand" =>
       /\ lastCall.out.text # <<>>
       /\ lastCall.in.command \notin {"help", "status", "model", "reset", "new"}
            => /\ Head(lastCall.out.text) = "Unknown command: /"
               /\ lastCall.out.effects = NoEffects
       /\ lastCall.in.chatJid \notin DOMAIN registeredGroups
            => /\ lastCall.out.effects = NoEffects
               /\ lastCall.in.command \in {"status", "model", "reset", "new"}
                    => lastCall.out = NotRegistered
  /\ lastCall.fn = "telegramCommand" =>
       /\ Len(lastCall.out) >= 1
       /\ \A k \in DOMAIN lastCall.out : lastCall.out[k] # <<>>

----------------------------------------------------------------------------
\* Claims about the registration of groups

\* C31: a registerGroup call whose folder name the safe-path validator
\* rejects changes neither the registeredGroups map nor the table of
\* registered groups, and creates no group directory.
C31_RejectedFolderChangesNothing ==
  [][(lastCall'.fn = "registerGroup"
        /\ lastCall'.in.group.folder \in UnsafeFolders
        /\ lastCall' # lastCall)
       => UNCHANGED << registeredGroups, disk >>]_vars

\* A group is registered, and a later call with a rejected folder has been
\* made for another jid.
C31_Witness ==
  /\ lastCall.fn = "registerGroup"
  /\ lastCall.in.group.folder \in UnsafeFolders
  /\ lastCall.in.jid \notin DOMAIN registeredGroups
  /\ \E j \in DOMAIN registeredGroups : registeredGroups[j].folder = "new"

\* C32: no two different jids of registeredGroups have the same folder.
C32_FoldersUnique ==
  \A j1, j2 \in DOMAIN registeredGroups :
    registeredGroups[j1].folder = registeredGroups[j2].folder => j1 = j2

----------------------------------------------------------------------------
\* Claims about the hand-over of messages

\* C33: a stored message is handed to a sandbox at most once while its
\* cursor is not rolled back: the prompt of a new run holds only messages
\* newer than the cursor, and the prompt and the follow-up batches of one
\* run together hold a message's line no more often than the chat has
\* stored messages with that line.
C33_HandedAtMostOnce ==
  /\ [][\A j \in AllJids :
          (run[j].pc # "running" /\ run'[j].pc = "running" /\ ~run'[j].task)
            => \A k \in DOMAIN run'[j].prompt :
                 run'[j].prompt[k].time > lastAgentTimestamp[j]]_vars
  /\ [](\A j \in AllJids :
          (run[j].pc = "running" /\ ~run[j].task) =>
            \A i \in DOMAIN store :
              LET line == [time |-> store[i].ts,
                           content |-> escapeXml(store[i].content)]
                  handed == Cardinality({k \in DOMAIN run[j].prompt :
                                            run[j].prompt[k] = line})
                            + Cardinality({b \in (DOMAIN ipcInput[j]) \X (1..MaxMsgs) :
                                             /\ b[2] \in DOMAIN ipcInput[j][b[1]]
                                             /\ ipcInput[j][b[1]][b[2]] = line})
                  stored == Cardinality({r \in DOMAIN store :
                                           /\ store[r].jid = j
                                           /\ ~store[r].bot
                                           /\ store[r].ts = store[i].ts
                                           /\ store[r].content = store[i].content})
              IN  store[i].jid = j /\ ~store[i].bot => handed <= stored)


\* C34: when a sandbox run that ended in error keeps the cursor (no
\* rollback), every message the run was handed, in its prompt or in a piped
\* follow-up, has a reply of the assistant stored after it (for a message
\* whose time and text no other message of the chat shares, so that its line
\* in a prompt is its own).
C34_KeptCursorMeansReplied ==
  [][\A j \in AllJids :
       (/\ BatchEnds(j)
        /\ run'[j].output = "error" \/ run[j].hadError
        /\ lastAgentTimestamp'[j] = lastAgentTimestamp[j])
         => \A i \in DOMAIN store :
              LET handed ==
                    \/ \E k \in DOMAIN run[j].prompt : run[j].prompt[k] = PromptLine(i)
                    \/ \E b \in DOMAIN ipcInput[j] :
                         \E k \in DOMAIN ipcInput[j][b] :
                           ipcInput[j][b][k] = PromptLine(i)
              IN  (/\ store[i].jid = j
                   /\ ~store[i].bot
                   /\ store[i].ts <= lastAgentTimestamp'[j]
                   /\ \A r \in DOMAIN store :
                        (store[r].jid = j /\ ~store[r].bot
                           /\ PromptLine(r) = PromptLine(i)) => r = i
                   /\ handed)
                    => \E r \in DOMAIN store :
                         r > i /\ store[r].bot /\ store[r].jid = j]_vars


----------------------------------------------------------------------------
\* Claims about the final reply of a streamed message

\* C35: once finalize has written the final reply into the streamed
\* message, no later write of the accumulator puts other content into that
\* message: neither a flush that starts afterwards nor the edit of a second
\* finalize.
C35_FinalReplyNotReplaced ==
  [][\A j \in DOMAIN registeredGroups :
       acc[j].final.id # 0 =>
         /\ \A k \in DOMAIN acc[j].jobs :
              (/\ acc[j].jobs[k].status = "queued"
               /\ acc'[j].jobs[k].status = "running"
               /\ acc'[j].jobs[k].call = "edit"
               /\ acc'[j].jobs[k].id = acc[j].final.id)
                => buildContent(acc[j]) = acc[j].final.content
         /\ (/\ acc[j].fin.phase = "waiting"
             /\ acc'[j].fin.phase = "editing"
             /\ acc'[j].fin.id = acc[j].final.id)
              => acc'[j].fin.content = acc[j].final.content]_vars


----------------------------------------------------------------------------
\* Claims about the follow-ups a runner reads

\* C36: every follow-up file that the runner has taken out of input/ is a
\* prompt, or part of one, of a query of this invocation.
C36_ConsumedFollowUpsAreUsed ==
  \A name \in sandbox.loop.piped :
    (sandbox.loop.pc # "off" /\ InputPath(name) \notin DOMAIN ipc.files)
      => name \in sandbox.loop.used


----------------------------------------------------------------------------
\* Claims about the files of a kernel query

\* C37: once queryKernel has returned for a uuid, neither its query file
\* nor a response file for it is in the IPC directory.
C37_NoFileAfterReturn ==
  \A uuid \in Uuids :
    sandbox.queries[uuid].pc = "done"
      => /\ FilePath("queries", uuid) \notin DOMAIN ipc.files
         /\ ResponsePath(uuid) \notin DOMAIN ipc.files


----------------------------------------------------------------------------
\* Claims about the end of a runner

\* C38: a runner that is waiting for input or running a query while the
\* close sentinel is in input/ eventually leaves its query loop, and a query
\* of the Gemini runner makes at most MAX_TOOL_ROUNDS generate rounds.
C38_CloseEndsTheRunner ==
  /\ (shouldClose(ipc.files) /\ sandbox.loop.pc \in {"waiting", "query"})
       ~> (sandbox.loop.pc = "exited")
  /\ [](sandbox.loop.round <= MAX_TOOL_ROUNDS)

\* The runner has left its loop on the sentinel seen during a query that
\* had used up its generate rounds.
C38_Witness ==
  /\ sandbox.loop.pc = "exited"
  /\ sandbox.loop.runtime = "gemini"
  /\ sandbox.loop.closedDuringQuery
  /\ sandbox.loop.round = MAX_TOOL_ROUNDS


----------------------------------------------------------------------------
\* Claims about the model switch

\* C39: /model <arg> in a registered chat either resolves to the current
\* model and does nothing to the group, or does all of this: the sandbox is
\* killed, the session cleared, the group's model set to the resolved id and
\* its runtime to runtimeForModel of that id, the group written to the
\* table and its reported model name deleted.
C39_ModelSwitchIsWhole ==
  (/\ lastCall.fn = "handleCommand"
   /\ lastCall.in.command = "model"
   /\ lastCall.in.args # <<>>
   /\ lastCall.in.chatJid \in DOMAIN registeredGroups)
    => LET effects == lastCall.out.effects
           resolved == resolveModel(lastCall.in.args)
       IN  IF resolved.id = DEFAULT_MODEL
             THEN effects = NoEffects
             ELSE /\ effects.kill
                  /\ effects.clear
                  /\ effects.model.id = resolved.id
                  /\ effects.model.runtime = runtimeForModel(effects.model.id)
                  /\ effects.stored
                  /\ effects.unreported

\* A /model command has switched a registered chat to an id outside the
\* catalog, which runs on another runtime than the default one.
C39_Witness ==
  /\ lastCall.fn = "handleCommand"
  /\ lastCall.in.command = "model"
  /\ lastCall.in.chatJid \in DOMAIN registeredGroups
  /\ lastCall.out.effects.clear
  /\ lastCall.out.effects.model \notin Range(MODEL_CATALOG)
  /\ lastCall.out.effects.model.runtime # DEFAULT_RUNTIME


----------------------------------------------------------------------------
\* Claims about the host callback server

\* C40: every request gets exactly one response; a body over 1 MiB gets
\* 413, a body that is no JSON 400, a send-message without chat_jid or text
\* and a forward-task without task or group_folder 400, none of these with a
\* call of a dependency; a method other than POST gets 405 except GET on
\* /healthz and /v1/ipc/registered-groups; an unknown POST route gets 404;
\* a dependency that throws gets 500.
C40_OneResponsePerRequest ==
  lastCall.fn = "hostCallback" =>
    LET req == lastCall.in.req
        out == lastCall.out
        status == out.statuses[1]
        isGet == /\ req.method = "GET"
                 /\ req.url \in {"/healthz", "/v1/ipc/registered-groups"}
        lacks(first, second) ==
          req.data.json # "object" \/ req.data[first] = "" \/ req.data[second] = ""
    IN  /\ Len(out.statuses) = 1
        /\ IF isGet THEN status = 200
           ELSE IF req.method # "POST" THEN status = 405 /\ out.calls = <<>>
           ELSE IF req.bytes > MAX_BODY_BYTES THEN status = 413 /\ out.calls = <<>>
           ELSE IF req.data.json = "invalid" THEN status = 400 /\ out.calls = <<>>
           ELSE IF req.url = "/v1/ipc/send-message" /\ lacks("chat_jid", "text")
             THEN status = 400 /\ out.calls = <<>>
           ELSE IF req.url = "/v1/ipc/forward-task" /\ lacks("task", "group_folder")
             THEN status = 400 /\ out.calls = <<>>
           ELSE IF req.url \notin {"/v1/ipc/send-message", "/v1/ipc/forward-task"}
             THEN status = 404 /\ out.calls = <<>>
           ELSE status = (IF lastCall.in.throws THEN 500 ELSE 200)

====
